---- MODULE Spec2Model ----
(***************************************************************************)
(* Model of the MOSEK/Python binding layer (mosek/__init__.py): the Env    *)
(* and Task handle objects, their construction and teardown, the callback  *)
(* trampolines, the translation of native status codes into exceptions,    *)
(* the array-length checks of the generated wrappers, the enumeration      *)
(* classes, the accepts() argument contracts, the lazy loading of the      *)
(* extension library and the extension handle of a Task.  The native       *)
(* engine is a black box: every native call returns a status drawn from    *)
(* NativeStatus, and the model records which native calls each wrapper     *)
(* makes and with which handle value.                                      *)
(***************************************************************************)
EXTENDS Integers, Sequences, FiniteSets, TLC

(***************************************************************************)
(* Bounds of the model.                                                    *)
(***************************************************************************)
\* how many times the caller invokes __exit__/__del__ explicitly on one handle
MaxRelease == 2
\* largest number of constraints the native task holds in the model
MaxCon == 2
\* largest number of variables the native task holds in the model
MaxVar == 2
\* longest array a caller passes
MaxLen == 2
\* the longest list of names or of values given to Enum()
MaxEnumLen == 2
\* how many threads call __load_scopt__, and how many times each
MaxThreads == 2
MaxLoadCalls == 2
\* the largest number of arguments of one call through accepts()
MaxArgs == 3

(***************************************************************************)
(* Values.                                                                 *)
(***************************************************************************)
\* Python's None, and "attribute not present on the object"
NoneV == "None"
Unset == "unset"
\* user callables a caller may register
Funcs == {"f"}
\* description strings the native engine may write into an output buffer
Desc == {"d1", "d2"}
\* statuses the native engine returns in the model: success, two declared
\* response codes (err_license_expired, err_space) and one integer that the
\* rescode enumeration does not declare
NativeStatus == {0, 1001, 1051, 20000}

\* rescode._valdict: the integer codes the rescode enumeration declares
rescode_values ==
  {
     0, 50, 51, 52, 53, 54, 57, 62, 63, 65, 66, 70, 71, 72, 80, 85, 200, 201, 250, 251,
     270, 300, 350, 351, 352, 400, 405, 450, 500, 501, 502, 503, 505, 510, 511, 512, 515, 516, 705, 710,
     800, 801, 802, 803, 804, 805, 807, 810, 850, 851, 852, 853, 900, 901, 902, 903, 904, 930, 931, 950,
     960, 1000, 1001, 1002, 1005, 1006, 1007, 1008, 1010, 1011, 1012, 1013, 1014, 1015, 1016, 1017, 1018, 1019, 1020, 1021,
     1025, 1026, 1027, 1028, 1030, 1035, 1036, 1040, 1045, 1046, 1047, 1048, 1049, 1050, 1051, 1052, 1053, 1054, 1055, 1056,
     1057, 1059, 1060, 1061, 1062, 1063, 1064, 1065, 1066, 1070, 1071, 1075, 1076, 1077, 1078, 1079, 1080, 1081, 1090, 1100,
     1101, 1102, 1103, 1104, 1105, 1106, 1107, 1108, 1109, 1110, 1111, 1112, 1113, 1114, 1115, 1116, 1117, 1118, 1119, 1120,
     1121, 1122, 1125, 1126, 1127, 1128, 1150, 1151, 1152, 1153, 1154, 1155, 1156, 1157, 1158, 1159, 1160, 1161, 1162, 1163,
     1164, 1166, 1168, 1169, 1170, 1171, 1172, 1175, 1176, 1177, 1178, 1179, 1180, 1197, 1198, 1199, 1200, 1201, 1203, 1204,
     1205, 1206, 1207, 1208, 1210, 1215, 1216, 1217, 1218, 1219, 1220, 1221, 1222, 1225, 1226, 1227, 1228, 1230, 1231, 1232,
     1234, 1235, 1236, 1237, 1238, 1240, 1241, 1242, 1243, 1245, 1246, 1247, 1250, 1251, 1252, 1253, 1254, 1255, 1256, 1257,
     1258, 1259, 1260, 1261, 1262, 1263, 1264, 1265, 1266, 1267, 1268, 1269, 1270, 1271, 1272, 1274, 1275, 1280, 1281, 1283,
     1285, 1286, 1287, 1288, 1289, 1290, 1291, 1292, 1293, 1294, 1295, 1296, 1299, 1300, 1301, 1302, 1303, 1304, 1305, 1306,
     1307, 1310, 1350, 1375, 1380, 1385, 1390, 1391, 1400, 1401, 1402, 1403, 1404, 1405, 1406, 1407, 1408, 1409, 1415, 1417,
     1425, 1428, 1430, 1431, 1432, 1433, 1440, 1441, 1445, 1446, 1449, 1450, 1461, 1462, 1470, 1471, 1472, 1473, 1480, 1482,
     1500, 1501, 1503, 1550, 1551, 1552, 1560, 1580, 1590, 1600, 1610, 1615, 1650, 1700, 1701, 1702, 1710, 1711, 1750, 1760,
     1800, 1801, 2000, 2001, 2500, 2501, 2502, 2503, 2504, 2505, 2506, 2520, 2560, 2561, 2562, 2800, 2900, 2901, 2950, 2953,
     3000, 3001, 3002, 3005, 3050, 3051, 3052, 3053, 3054, 3055, 3056, 3057, 3058, 3080, 3100, 3101, 3102, 3500, 3600, 3700,
     3800, 3900, 3910, 3915, 3916, 3920, 3940, 3941, 3942, 3943, 3944, 3950, 3999, 4000, 4005, 4010, 4500, 4501, 4502, 4503,
     5000, 5005, 5010, 6000, 6010, 6020, 7000, 7001, 7002, 7005, 7010, 7011, 7012, 7015, 7016, 7017, 7018, 7019, 7100, 7101,
     7102, 7103, 7104, 7105, 7106, 7107, 7108, 7109, 7110, 7111, 7112, 7113, 7114, 7115, 7116, 7117, 7118, 7119, 7120, 7121,
     7122, 7123, 7124, 7125, 7130, 7131, 7150, 7151, 7152, 7153, 7155, 8000, 8001, 8002, 8003, 10000, 10001, 10002, 10003, 10004,
     10006, 10007, 10008, 10009, 10015, 10020, 10025, 10030, 10031
  }

\* streamtype: err=2, log=0, msg=1, wrn=3
streamtype_values == {0, 1, 2, 3}
\* feature.members() in declaration order: pton=1, pts=0
feature_members == <<1, 0>>
\* callbackcode._valdict: 0..92
callbackcode_values == 0..92

(***************************************************************************)
(* State.                                                                  *)
(*  env, task : the Python objects (attributes of Env and Task)            *)
(*  nat       : what the native engine holds (black box, observed)         *)
(*  ret       : how the binding operation that just ran ended              *)
(*  ncalls    : the native calls that operation made                       *)
(*  cb        : the trampoline invocation the native engine just made      *)
(* ret/ncalls and cb describe the latest event only: a binding operation   *)
(* clears cb, a trampoline invocation clears ret and ncalls.               *)
(*  lastreg   : the value last registered on each callback channel         *)
(*  nrel      : number of teardown invocations made on each handle         *)
(*  buf       : the array arguments of the operation that just ran, as the *)
(*              caller sees them before and after it                        *)
(*  en        : the enumeration class made by Enum(name, names, values)    *)
(*              and the last member request made of it                     *)
(*  ld        : the module globals __scopt__ and __scopt_guard__ and the   *)
(*              position of each thread inside __load_scopt__              *)
(*  ac        : the last call made through a wrapper built by accepts():   *)
(*              its contracts, its arguments and how it ended              *)
(***************************************************************************)
VARIABLES env, task, nat, ret, ncalls, cb, lastreg, nrel, buf, en, ld, ac

vars == <<env, task, nat, ret, ncalls, cb, lastreg, nrel, buf, en, ld, ac>>

\* one native call: entry point, handle value passed, status returned, the
\* text the engine wrote into an output buffer ("" when there is none), and the
\* extension handle passed ("" when the entry point takes none)
NCall(fn, h, st) == [fn |-> fn, h |-> h, st |-> st, out |-> "", sch |-> ""]

\* one call into the extension library for extension handle sch
SCall(fn, h, sch, st) == [NCall(fn, h, st) EXCEPT !.sch = sch]

\* how an operation ended: exc = "none" for a normal return
\* arg is the enum-typed argument the operation was given, when it takes one
NoArg == [enum |-> "none", v |-> 0]
Ret(op, exc, errno, msg, val) ==
  [op |-> op, exc |-> exc, errno |-> errno, msg |-> msg, val |-> val,
   arg |-> NoArg]

NoSlots == [w \in streamtype_values |-> NoneV]
NoLinks == [w \in streamtype_values |-> FALSE]

NoRet == Ret("none", "none", 0, "", 0)
NoCb == [chan |-> "none", w |-> 0, invoked |-> <<>>, uraise |-> FALSE,
         raised |-> FALSE, r |-> 0, regs |-> [stream |-> NoneV],
         caller |-> 0, rets |-> <<>>]

(***************************************************************************)
(* The call wrapper built by accepts(argtlst) and the contracts.  A value *)
(* is [t, v, e]: its Python type, its number (a float is counted in        *)
(* halves, a numeric string holds the number it spells) and, for a member  *)
(* of an enumeration, the enumeration.                                     *)
(***************************************************************************)
PyInt(v) == [t |-> "int", v |-> v, e |-> ""]
PyFloat(halves) == [t |-> "float", v |-> halves, e |-> ""]
PyNumStr(v) == [t |-> "numstr", v |-> v, e |-> ""]
PyStr == [t |-> "str", v |-> 0, e |-> ""]
PyNone == [t |-> "None", v |-> 0, e |-> ""]
PyMember(e, v) == [t |-> "member", v |-> v, e |-> e]

\* a contract: its name and, for _accept_anyenum(e), the enumeration
Contract(c) == [c |-> c, e |-> ""]
EnumContract(e) == [c |-> "_accept_anyenum", e |-> e]

\* an error message: its text and the position of the parameter it names
\* (0: it names none)
Msg(text) == [text |-> text, param |-> 0]
Accepted(val) == [exc |-> "none", val |-> val, msg |-> Msg("")]
Rejected(exc, text) == [exc |-> exc, val |-> PyNone, msg |-> Msg(text)]

\* _make_int = int, _make_long = int
make_int(a) ==
  IF a.t \in {"int", "member", "numstr"} THEN Accepted(PyInt(a.v))
  ELSE IF a.t = "float" THEN Accepted(PyInt(a.v \div 2))
  ELSE IF a.t = "str" THEN Rejected("ValueError", "invalid literal for int()")
  ELSE Rejected("TypeError", "int() argument must be a string or a number")

\* _make_double = float
make_double(a) ==
  IF a.t \in {"int", "member", "numstr"} THEN Accepted(PyFloat(2 * a.v))
  ELSE IF a.t = "float" THEN Accepted(a)
  ELSE IF a.t = "str" THEN Rejected("ValueError", "could not convert string to float")
  ELSE Rejected("TypeError", "float() argument must be a string or a number")

\* _accept_anyenum(e)
accept_anyenum(e, a) ==
  IF a.t = "member" /\ a.e = e THEN Accepted(a)
  ELSE Rejected("TypeError", "Expected an " \o e \o " enum type")

\* _accept_str
accept_str(a) ==
  IF a.t \in {"str", "numstr"} THEN Accepted(a)
  ELSE Rejected("TypeAcceptError", "Expected a string argument")

\* t(a) for one contract t
ApplyContract(t, a) ==
  IF t.c = "_make_int" THEN make_int(a)
  ELSE IF t.c = "_make_double" THEN make_double(a)
  ELSE IF t.c = "_accept_anyenum" THEN accept_anyenum(t.e, a)
  ELSE IF t.c = "_accept_str" THEN accept_str(a)
  ELSE Accepted(a)

\* zip(argtlst, args) stops at the shorter of the two
Min(a, b) == IF a <= b THEN a ELSE b

\* the list [ t(a) for (t,a) in zip(argtlst,args) ], built left to right up
\* to the first contract that raises
RECURSIVE Converted(_, _, _)
Converted(argtlst, args, i) ==
  IF i > Min(Len(argtlst), Len(args)) THEN <<>>
  ELSE LET r == ApplyContract(argtlst[i], args[i])
       IN  IF r.exc # "none" THEN <<r>>
           ELSE <<r>> \o Converted(argtlst, args, i + 1)

\* the body of accept(args) after the count check: the wrapped function is
\* called with the converted arguments; a TypeAcceptError becomes TypeError(e)
\*   applied : the results of the contracts that were applied
\*   called  : whether the wrapped function was invoked, passed : with what
\*   origin  : what raised the exception that reaches the caller
accept_forward(argtlst, args) ==
  LET rs == Converted(argtlst, args, 1)
      n  == Len(rs)
  IN  IF n > 0 /\ rs[n].exc # "none"
      THEN [applied |-> rs, called |-> FALSE, passed |-> <<>>,
            exc |-> IF rs[n].exc = "TypeAcceptError" THEN "TypeError" ELSE rs[n].exc,
            msg |-> rs[n].msg,
            origin |-> IF rs[n].exc = "TypeAcceptError" THEN "accepts"
                       ELSE IF argtlst[n].c = "_accept_anyenum" THEN "contract"
                       ELSE "conversion"]
      ELSE [applied |-> rs, called |-> TRUE, passed |-> [i \in 1..n |-> rs[i].val],
            exc |-> "none", msg |-> Msg(""), origin |-> "none"]

\* accept(args) without the count check
accept_nocount(argtlst, args) == accept_forward(argtlst, args)

\* accept(args): if len(args) != len(argtlst): raise TypeError(...)
accept(argtlst, args) ==
  IF Len(args) # Len(argtlst)
  THEN [applied |-> <<>>, called |-> FALSE, passed |-> <<>>, exc |-> "TypeError",
        msg |-> Msg("Expected " \o ToString(Len(argtlst)) \o " argument(s) ("
                    \o ToString(Len(args)) \o " given)"),
        origin |-> "accepts"]
  ELSE accept_forward(argtlst, args)

\* before any wrapped call
NoAccept ==
  [argtlst |-> <<>>, args |-> <<>>, applied |-> <<>>, called |-> FALSE,
   passed |-> <<>>, exc |-> "none", msg |-> Msg(""), origin |-> "none",
   made |-> FALSE]

(***************************************************************************)
(* Enumerations: EnumBase and Enum(name, names, values).  A Python string  *)
(* is the sequence of its characters; a member is the pair of its name and *)
(* its integer code.                                                       *)
(***************************************************************************)
\* the characters the model's names are written with
Letters == {"a", "b", "c", "E", "F"}
Digits == {"1"}

\* enumnamere = re.compile(r'[a-zA-Z][a-zA-Z0-9_]*$'), used with .match():
\* anchored at the start; $ matches at the end or before one final newline
enumnamere_match(n) ==
  LET body == IF Len(n) > 0 /\ n[Len(n)] = "\n" THEN SubSeq(n, 1, Len(n) - 1) ELSE n
  IN  /\ Len(body) >= 1
      /\ body[1] \in Letters
      /\ \A i \in 2..Len(body) : body[i] \in Letters \cup Digits \cup {"_"}

\* value.split('.')[-1]: what follows the last dot
SplitLast(s) ==
  LET dots == {i \in 1..Len(s) : s[i] = "."}
      last == IF dots = {} THEN 0 ELSE CHOOSE i \in dots : \A j \in dots : j <= i
  IN  SubSeq(s, last + 1, Len(s))

\* range(len(names))
Range(l) == [i \in 1..l |-> i - 1]

\* values=None, or a list of integers
NoValues == [none |-> TRUE, seq |-> <<>>]
Values(seq) == [none |-> FALSE, seq |-> seq]

\* the index of the last element of seq equal to x
LastIndex(seq, x) ==
  CHOOSE i \in DOMAIN seq : seq[i] = x /\ \A j \in DOMAIN seq : seq[j] = x => j <= i

\* a request made of an enumeration class, cls(value): an int (a raw
\* integer, or a member of another enumeration, which is an int), a str, or
\* a value of another type
IntReq(c) == [t |-> "int", code |-> c, name |-> <<>>]
StrReq(n) == [t |-> "str", code |-> 0, name |-> n]
OtherReq == [t |-> "other", code |-> 0, name |-> <<>>]
NoMember == [name |-> <<>>, code |-> -1]
NoGot == [exc |-> "none", item |-> NoMember]

\* EnumBase._initialize(names, values): the checks, then the items and the
\* two dictionaries; dict() keeps the last item of a repeated key
EnumBase_initialize(names, values) ==
  LET failed == [exc |-> "ValueError", members |-> <<>>,
                 namedict |-> <<>>, valdict |-> <<>>]
  IN
  IF \E i \in DOMAIN names : ~enumnamere_match(names[i]) THEN failed
  ELSE LET vals == IF values.none THEN Range(Len(names)) ELSE values.seq
       IN  IF Len(vals) # Len(names) THEN failed
           ELSE LET items == [i \in DOMAIN names |->
                                [name |-> names[i], code |-> vals[i]]]
                IN  [exc |-> "none",
                     members |-> items,
                     namedict |-> [n \in {names[i] : i \in DOMAIN names} |->
                                     items[LastIndex(names, n)]],
                     valdict |-> [c \in {vals[i] : i \in DOMAIN vals} |->
                                    items[LastIndex(vals, c)]]]

\* Enum(name, names, values): e = type(name,(EnumBase,),{}); e._initialize(...);
\* when _initialize raises, no class is returned
Enum(name, names, values) ==
  LET i == EnumBase_initialize(names, values)
  IN  [phase |-> IF i.exc = "none" THEN "built" ELSE "failed",
       name |-> name, names |-> names, values |-> values,
       members |-> i.members, namedict |-> i.namedict, valdict |-> i.valdict,
       req |-> OtherReq, got |-> NoGot]

\* EnumBase.__new__(cls, value)
EnumBase_new(cls, value) ==
  IF value.t = "int"
  THEN IF value.code \in DOMAIN cls.valdict
       THEN [exc |-> "none", item |-> cls.valdict[value.code]]
       ELSE [exc |-> "KeyError", item |-> NoMember]
  ELSE IF value.t = "str"
  THEN IF SplitLast(value.name) \in DOMAIN cls.namedict
       THEN [exc |-> "none", item |-> cls.namedict[SplitLast(value.name)]]
       ELSE [exc |-> "KeyError", item |-> NoMember]
  ELSE [exc |-> "TypeError", item |-> NoMember]

\* before any call of Enum()
NoEnum == [phase |-> "none", name |-> <<>>, names |-> <<>>, values |-> NoValues,
           members |-> <<>>, namedict |-> <<>>, valdict |-> <<>>,
           req |-> OtherReq, got |-> NoGot]

(***************************************************************************)
(* The SCopt extension library, loaded on first use by __load_scopt__().   *)
(***************************************************************************)
\* the threads that use the extension
Threads == 1..MaxThreads

\* scopt, linked : the global __scopt__ and whether the prototypes of its
\*                 entry points have been declared
\* guard         : the thread holding __scopt_guard__, 0 when it is free
\* pc, exc       : where each thread is in __load_scopt__, and the exception
\*                 it is unwinding with
\* calls         : how many calls each thread has made
\* runs, completed, lateruns, contended : how often the load/link sequence has
\*                 been started, has run to its end, has been started after
\*                 it had run to its end; whether a call was made while
\*                 another thread held the lock
NotLoaded ==
  [scopt |-> NoneV, linked |-> FALSE, guard |-> 0,
   pc |-> [t \in Threads |-> "idle"], exc |-> [t \in Threads |-> "none"],
   calls |-> [t \in Threads |-> 0],
   runs |-> 0, completed |-> 0, lateruns |-> 0, contended |-> FALSE]

\* what the other variables do while a thread is inside __load_scopt__
LoadFrame ==
  /\ ret' = NoRet /\ ncalls' = <<>> /\ cb' = NoCb /\ buf' = <<>>
  /\ UNCHANGED <<env, task, nat, lastreg, nrel, en, ac>>

\* a thread calls __load_scopt__()
load_scopt_call(t) ==
  /\ ld.pc[t] \in {"idle", "returned"}
  /\ ld.calls[t] < MaxLoadCalls
  /\ ld' = [ld EXCEPT !.pc[t] = "acquire", !.exc[t] = "none",
                      !.calls[t] = @ + 1,
                      !.contended = @ \/ ld.guard # 0]
  /\ LoadFrame

\* __scopt_guard__.acquire(): blocks while another thread holds the lock
load_scopt_acquire(t) ==
  /\ ld.pc[t] = "acquire"
  /\ ld.guard = 0
  /\ ld' = [ld EXCEPT !.guard = t, !.pc[t] = "check"]
  /\ LoadFrame

\* if __scopt__ is None:
load_scopt_check(t) ==
  /\ ld.pc[t] = "check"
  /\ ld' = IF ld.scopt = NoneV
           THEN [ld EXCEPT !.pc[t] = "load", !.runs = @ + 1,
                           !.lateruns = @ + (IF ld.completed > 0 THEN 1 ELSE 0)]
           ELSE [ld EXCEPT !.pc[t] = "release"]
  /\ LoadFrame

\* MSK_XX_getversion, then __scopt__ = __library_factory__(...): the library
\* is opened, or OSError is raised and __scopt__ keeps its value
load_scopt_open(t, ok) ==
  /\ ld.pc[t] = "load"
  /\ ld' = IF ok
           THEN [ld EXCEPT !.scopt = "lib", !.pc[t] = "link"]
           ELSE [ld EXCEPT !.exc[t] = "OSError", !.pc[t] = "release"]
  /\ LoadFrame

\* restype and argtypes of MSK_scbegin, MSK_scend and MSK_scwritefile: each is
\* an attribute lookup on the library object assigned to __scopt__ just
\* before, which raises AttributeError when the library lacks the symbol
load_scopt_link(t, ok) ==
  /\ ld.pc[t] = "link"
  /\ ld' = IF ok
           THEN [ld EXCEPT !.linked = TRUE, !.completed = @ + 1,
                           !.pc[t] = "release"]
           ELSE [ld EXCEPT !.exc[t] = "AttributeError", !.pc[t] = "release"]
  /\ LoadFrame

\* finally: __scopt_guard__.release(); the call returns or raises
load_scopt_release(t) ==
  /\ ld.pc[t] = "release"
  /\ ld' = [ld EXCEPT !.guard = 0, !.pc[t] = "returned"]
  /\ LoadFrame


Init ==
  /\ env = [phase |-> "new", built |-> FALSE, nativep |-> Unset, attrs |-> FALSE,
            stream_func |-> NoSlots]
  /\ task = [phase |-> "new", built |-> FALSE, nativep |-> Unset, attrs |-> FALSE,
             foreign |-> FALSE, progress_func |-> Unset,
             infocallback_func |-> Unset, stream_func |-> NoSlots,
             schandle |-> Unset]
  /\ nat = [env |-> "none", task |-> "none", envDestroys |-> 0, taskDestroys |-> 0,
            envlink |-> NoLinks, tasklink |-> NoLinks, taskcb |-> FALSE,
            numcon |-> 0, numvar |-> 0, sclive |-> 0, scattached |-> "none"]
  /\ ret = NoRet
  /\ ncalls = <<>>
  /\ cb = NoCb
  /\ lastreg = [progress |-> NoneV, info |-> NoneV, tstream |-> NoSlots,
                estream |-> NoSlots]
  /\ nrel = [env |-> 0, task |-> 0]
  /\ buf = <<>>
  /\ en = NoEnum
  /\ ld = NotLoaded
  /\ ac = NoAccept

(***************************************************************************)
(* Error translation.                                                      *)
(***************************************************************************)
OkOut == [exc |-> "none", errno |-> 0, msg |-> ""]
Raise(exc) == [exc |-> exc, errno |-> 0, msg |-> ""]

\* Error(rescode(res), msg): rescode(res) is EnumBase.__new__, which looks
\* res up in rescode._valdict and raises KeyError for an undeclared code
RaiseError(res, msg) ==
  IF res \in rescode_values
  THEN [exc |-> "Error", errno |-> res, msg |-> msg]
  ELSE Raise("KeyError")

\* the error branch of every Env method: raise Error(rescode(res),"")
EnvError(res) == RaiseError(res, "")

\* the error branch of the constructors: raise Error(rescode(res),"Error %d" % res)
InitError(res) == RaiseError(res, "Error " \o ToString(res))

\* body of a generated Env wrapper that makes one native call on handle h
EnvCall(fn, h, st) ==
  [calls |-> <<NCall(fn, h, st)>>,
   out   |-> IF st # 0 THEN EnvError(st) ELSE OkOut]

\* Env.getcodedesc(code_): one native call, its own status r translated as in
\* every Env method, the description d returned on success
Env_getcodedesc(code, r, d) ==
  [calls |-> <<[NCall("MSK_XX_getcodedesc", "-", r) EXCEPT !.out = IF r = 0 THEN d ELSE ""]>>,
   out   |-> IF r # 0 THEN EnvError(r) ELSE OkOut,
   str   |-> IF r # 0 THEN "" ELSE d]

\* Task.__getlasterror(res): one or two MSK_XX_getlasterror64 calls; le and lm are
\* the last error code and message the native engine reports
Task_getlasterror(h, res, r1, r2, le, lm) ==
  [calls  |-> IF r1 = 0
              THEN <<NCall("MSK_XX_getlasterror64", h, r1), NCall("MSK_XX_getlasterror64", h, r2)>>
              ELSE <<NCall("MSK_XX_getlasterror64", h, r1)>>,
   result |-> IF r1 = 0 THEN le ELSE res,
   msg    |-> IF r1 = 0 /\ r2 = 0 THEN lm ELSE ""]

\* the error branch of every generated Task method:
\*   result,msg = self.__getlasterror(res)
\*   raise Error(rescode(res),Env.getcodedesc(rescode(res))[1])
\* n carries the native engine's answers to the secondary calls
TaskError(h, res, n) ==
  LET gle == Task_getlasterror(h, res, n.r1, n.r2, n.le, n.lm)
      gd  == Env_getcodedesc(res, n.r3, n.d)
  IN  IF res \notin rescode_values
      THEN [calls |-> gle.calls, out |-> Raise("KeyError")]
      ELSE IF gd.out.exc # "none"
      THEN [calls |-> gle.calls \o gd.calls, out |-> gd.out]
      ELSE [calls |-> gle.calls \o gd.calls, out |-> RaiseError(res, gd.str)]

\* body of a generated Task wrapper that makes one native call on handle h
TaskCall(fn, h, st, n) ==
  IF st # 0
  THEN [calls |-> <<NCall(fn, h, st)>> \o TaskError(h, st, n).calls,
        out   |-> TaskError(h, st, n).out]
  ELSE [calls |-> <<NCall(fn, h, st)>>, out |-> OkOut]

(***************************************************************************)
(* Native engine (black box).  A destroy call ends the native object and   *)
(* its callback linkage; the engine writes NULL into the pointer variable  *)
(* it is given by reference.                                               *)
(***************************************************************************)
NatDeleteEnv(n) ==
  [n EXCEPT !.env = IF @ = "live" THEN "deleted" ELSE @,
            !.envDestroys = @ + 1,
            !.envlink = NoLinks]

NatDeleteTask(n) ==
  [n EXCEPT !.task = IF @ = "live" THEN "deleted" ELSE @,
            !.taskDestroys = @ + 1,
            !.tasklink = NoLinks,
            !.taskcb = FALSE]

(***************************************************************************)
(* Env.                                                                    *)
(***************************************************************************)
\* Env.__init__(licensefile, debugfile): s is the status of MSK_XX_makeenv, r of
\* MSK_XX_putlicensepath, g of MSK_XX_enablegarcolenv, d of the rollback's MSK_XX_deleteenv
Env_init(licensefile, s, r, g, d) ==
  /\ UNCHANGED <<en, ld, ac>>
  /\ env.phase = "new"
  /\ UNCHANGED <<task, lastreg, nrel>>
  /\ cb' = NoCb
  /\ buf' = <<>>
  /\ IF s # 0
     THEN \* creation failed: the object keeps a NULL c_void_p, not None
          /\ env' = [env EXCEPT !.phase = "failed", !.nativep = "nullp"]
          /\ nat' = nat
          /\ ncalls' = <<NCall("MSK_XX_makeenv", "nullp", s)>>
          /\ ret' = Ret("Env.__init__", InitError(s).exc, InitError(s).errno,
                        InitError(s).msg, 0)
     ELSE IF licensefile /\ r # 0
     THEN \* except: MSK_XX_deleteenv(byref(self.__nativep)); raise
          /\ env' = [env EXCEPT !.phase = "failed", !.nativep = "nullp"]
          /\ nat' = NatDeleteEnv([nat EXCEPT !.env = "live"])
          /\ ncalls' = <<NCall("MSK_XX_makeenv", "nullp", s),
                         NCall("MSK_XX_putlicensepath", "ptr", r),
                         NCall("MSK_XX_deleteenv", "ptr", d)>>
          /\ ret' = Ret("Env.__init__", InitError(r).exc, InitError(r).errno,
                        InitError(r).msg, 0)
     ELSE /\ env' = [env EXCEPT !.phase = "ok", !.built = TRUE, !.nativep = "ptr",
                                !.attrs = TRUE, !.stream_func = NoSlots]
          /\ nat' = [nat EXCEPT !.env = "live"]
          /\ ncalls' = <<NCall("MSK_XX_makeenv", "nullp", s)>>
                       \o (IF licensefile
                           THEN <<NCall("MSK_XX_putlicensepath", "ptr", r)>> ELSE <<>>)
                       \o <<NCall("MSK_XX_enablegarcolenv", "ptr", g)>>
          /\ ret' = Ret("Env.__init__", "none", 0, "", 0)

\* a parameter check that compares the integer value only
Env_license_op_byvalue(fn, h, arg, st) ==
  IF arg.v \notin {feature_members[i] : i \in DOMAIN feature_members}
  THEN [calls |-> <<>>, out |-> Raise("TypeError")]
  ELSE EnvCall(fn, h, st)

\* Env.checkinlicense(feature_) / Env.checkoutlicense(feature_) behind
\* @accepts(_accept_any,_accept_anyenum(feature)): arg is [enum, v]
Env_license_op(fn, h, arg, st) ==
  IF arg.enum # "feature"
  THEN [calls |-> <<>>, out |-> Raise("TypeError")]
  ELSE EnvCall(fn, h, st)

\* for f in feature.members(): self.checkinlicense(f) -- stops at the first raise
RECURSIVE CheckinAll(_, _, _)
CheckinAll(h, fs, sts) ==
  IF fs = <<>>
  THEN [calls |-> <<>>, out |-> OkOut]
  ELSE LET one == Env_license_op("MSK_XX_checkinlicense", h,
                                 [enum |-> "feature", v |-> Head(fs)], Head(sts))
       IN  IF one.out.exc # "none"
           THEN one
           ELSE [calls |-> one.calls \o CheckinAll(h, Tail(fs), Tail(sts)).calls,
                 out   |-> CheckinAll(h, Tail(fs), Tail(sts)).out]

\* Env.__del__: how = "exit" is an explicit release (__exit__ or a direct
\* __del__ call), how = "finalize" the interpreter's end-of-life call
Env_del(how, cs, d) ==
  /\ UNCHANGED <<en, ld, ac>>
  /\ IF how = "exit"
     THEN env.phase = "ok" /\ nrel.env < MaxRelease
     ELSE env.phase \in {"ok", "failed"}
  /\ nrel' = [nrel EXCEPT !.env = @ + 1]
  /\ UNCHANGED <<task, lastreg>>
  /\ cb' = NoCb
  /\ buf' = <<>>
  /\ LET ph == IF how = "finalize" THEN "gone" ELSE env.phase
         ci == CheckinAll(env.nativep, feature_members, cs)
         del == <<NCall("MSK_XX_deleteenv", env.nativep, d)>>
     IN  IF env.nativep = NoneV
         THEN /\ env' = [env EXCEPT !.phase = ph, !.nativep = NoneV]
              /\ nat' = nat
              /\ ncalls' = <<>>
              /\ ret' = Ret("Env.__del__", "none", 0, "", 0)
         ELSE IF ci.out.exc # "none"
         THEN \* checkinlicense raised: nothing after it in __del__ runs
              /\ env' = [env EXCEPT !.phase = ph]
              /\ nat' = nat
              /\ ncalls' = ci.calls
              /\ ret' = Ret("Env.__del__", ci.out.exc, ci.out.errno, ci.out.msg, 0)
         ELSE IF ~env.attrs
         THEN \* del self.__stream_func raises AttributeError after MSK_XX_deleteenv
              /\ env' = [env EXCEPT !.phase = ph, !.nativep = "nullp"]
              /\ nat' = NatDeleteEnv(nat)
              /\ ncalls' = ci.calls \o del
              /\ ret' = Ret("Env.__del__", "AttributeError", 0, "", 0)
         ELSE /\ env' = [env EXCEPT !.phase = ph, !.nativep = NoneV, !.attrs = FALSE]
              /\ nat' = NatDeleteEnv(nat)
              /\ ncalls' = ci.calls \o del
              /\ ret' = Ret("Env.__del__", "none", 0, "", 0)

\* the arguments callers pass where a mosek.feature is expected
FeatureArgs == {[enum |-> "feature", v |-> 1], [enum |-> "feature", v |-> 0],
                [enum |-> "int", v |-> 1], [enum |-> "streamtype", v |-> 1]}

\* Env.checkoutlicense(feature_)
Env_checkoutlicense(arg, st) ==
  /\ UNCHANGED <<en, ld, ac>>
  /\ env.phase = "ok"
  /\ UNCHANGED <<env, task, nat, lastreg, nrel>>
  /\ cb' = NoCb
  /\ buf' = <<>>
  /\ LET c == Env_license_op("MSK_XX_checkoutlicense", env.nativep, arg, st)
     IN  /\ ncalls' = c.calls
         /\ ret' = [Ret("Env.checkoutlicense", c.out.exc, c.out.errno, c.out.msg, 0)
                      EXCEPT !.arg = arg]

(***************************************************************************)
(* Task.                                                                   *)
(***************************************************************************)
\* the extension library (black box): MSK_scbegin makes a handle, MSK_scend
\* ends the one it is given, MSK_scattach and MSK_scdetach link the task to a
\* handle and unlink it.  sclive counts the handles made and not ended;
\* scattached says whether the task is linked to a handle, live or ended
NatScbegin(n) == [n EXCEPT !.sclive = @ + 1]
NatScattach(n) == [n EXCEPT !.scattached = "live"]
NatScdetach(n) == [n EXCEPT !.scattached = "none"]
NatScend(n, sch) ==
  IF sch = "sch"
  THEN [n EXCEPT !.sclive = @ - 1,
                 !.scattached = IF @ = "live" THEN "ended" ELSE @]
  ELSE n

\* a whole call of __load_scopt__() made while no other thread holds the
\* lock; lo is how the load/link sequence ends when it is run
load_scopt(l, lo) ==
  IF l.scopt # NoneV
  THEN [ld |-> l, exc |-> "none"]
  ELSE IF lo = "ok"
  THEN [ld |-> [l EXCEPT !.scopt = "lib", !.linked = TRUE], exc |-> "none"]
  ELSE IF lo = "AttributeError"
  THEN [ld |-> [l EXCEPT !.scopt = "lib"], exc |-> "AttributeError"]
  ELSE [ld |-> l, exc |-> "OSError"]

\* Task.removeSCeval(): detach and end the extension handle, statuses ignored
Task_removeSCeval_calls(t) ==
  IF t.schandle \in {NoneV, Unset}
  THEN <<>>
  ELSE <<SCall("MSK_scdetach", t.nativep, "", 0),
         SCall("MSK_scend", t.nativep, t.schandle, 0)>>

\* what removeSCeval's calls do to the extension library
NatRemoveSCeval(n, t) ==
  IF t.schandle \in {NoneV, Unset} THEN n
  ELSE NatScend(NatScdetach(n), t.schandle)

\* attributes of a Task whose constructor ran to its end
TaskBuilt(t, p, foreign) ==
  [t EXCEPT !.phase = "ok", !.built = TRUE, !.nativep = p, !.attrs = TRUE,
            !.foreign = foreign, !.progress_func = NoneV,
            !.infocallback_func = NoneV, !.stream_func = NoSlots,
            !.schandle = NoneV]

\* Task.__init__(env, maxnumcon, maxnumvar, nativep, other).  how says which
\* argument the caller gave: "env" an Env, "other" a Task to clone, "nativep" a
\* pre-existing native pointer, "bad" something that is neither.  s is the
\* status of the creation call, d of the rollback's MSK_XX_deletetask
Task_init(how, s, d) ==
  /\ UNCHANGED <<en, ld, ac>>
  /\ task.phase = "new"
  /\ how = "env" => env.phase = "ok"
  /\ UNCHANGED <<env, lastreg, nrel>>
  /\ cb' = NoCb
  /\ buf' = <<>>
  /\ LET create == IF how = "other"
                   THEN NCall("MSK_XX_clonetask", "ptr", s)
                   ELSE NCall("MSK_XX_maketask", env.nativep, s)
     IN  IF how = "bad"
         THEN \* TypeError before self.__nativep exists: the rollback does nothing
              /\ task' = [task EXCEPT !.phase = "failed"]
              /\ nat' = nat
              /\ ncalls' = <<>>
              /\ ret' = Ret("Task.__init__", "TypeError", 0, "", 0)
         ELSE IF how = "nativep"
         THEN /\ task' = TaskBuilt(task, "ptr", TRUE)
              /\ nat' = [nat EXCEPT !.task = "live", !.numcon = 0, !.numvar = 0]
              /\ ncalls' = <<>>
              /\ ret' = Ret("Task.__init__", "none", 0, "", 0)
         ELSE IF s # 0
         THEN \* except: hasattr(self,'_Task__nativep') and it is not None
              \*         -> MSK_XX_deletetask(byref(self.__nativep)); nativep = None
              /\ task' = [task EXCEPT !.phase = "failed", !.nativep = NoneV]
              /\ nat' = NatDeleteTask(nat)
              /\ ncalls' = <<create, NCall("MSK_XX_deletetask", "nullp", d)>>
              /\ ret' = Ret("Task.__init__", InitError(s).exc, InitError(s).errno,
                            InitError(s).msg, 0)
         ELSE /\ task' = TaskBuilt(task, "ptr", FALSE)
              /\ nat' = [nat EXCEPT !.task = "live", !.numcon = 0, !.numvar = 0]
              /\ ncalls' = <<create>>
              /\ ret' = Ret("Task.__init__", "none", 0, "", 0)

\* Task.__del__: how = "exit" is an explicit release (__exit__ or a direct
\* __del__ call), how = "finalize" the interpreter's end-of-life call
Task_del(how, d) ==
  /\ UNCHANGED <<en, ld, ac>>
  /\ IF how = "exit"
     THEN task.phase = "ok" /\ nrel.task < MaxRelease
     ELSE task.phase \in {"ok", "failed"}
  /\ nrel' = [nrel EXCEPT !.task = @ + 1]
  /\ UNCHANGED <<env, lastreg>>
  /\ cb' = NoCb
  /\ buf' = <<>>
  /\ LET ph == IF how = "finalize" THEN "gone" ELSE task.phase
     IN  IF task.nativep = Unset
         THEN \* reading self.__nativep raises AttributeError
              /\ task' = [task EXCEPT !.phase = ph]
              /\ nat' = nat
              /\ ncalls' = <<>>
              /\ ret' = Ret("Task.__del__", "AttributeError", 0, "", 0)
         ELSE IF task.nativep = NoneV
         THEN /\ task' = [task EXCEPT !.phase = ph, !.nativep = NoneV]
              /\ nat' = nat
              /\ ncalls' = <<>>
              /\ ret' = Ret("Task.__del__", "none", 0, "", 0)
         ELSE /\ task' = [task EXCEPT !.phase = ph, !.nativep = NoneV,
                                      !.attrs = FALSE, !.schandle = Unset,
                                      !.progress_func = Unset]
              /\ nat' = NatDeleteTask(NatRemoveSCeval(nat, task))
              /\ ncalls' = Task_removeSCeval_calls(task)
                           \o <<NCall("MSK_XX_deletetask", task.nativep, d)>>
              /\ ret' = Ret("Task.__del__", "none", 0, "", 0)

\* Task.removeSCeval() called by the user
Task_removeSCeval(lo) ==
  /\ UNCHANGED <<en, ac>>
  /\ task.phase = "ok"
  /\ UNCHANGED <<env, lastreg, nrel>>
  /\ cb' = NoCb
  /\ buf' = <<>>
  /\ LET l == load_scopt(ld, lo)
     IN  IF task.schandle = Unset
         THEN \* reading self.__schandle raises AttributeError
              /\ UNCHANGED <<task, nat, ld>>
              /\ ncalls' = <<>>
              /\ ret' = Ret("Task.removeSCeval", "AttributeError", 0, "", 0)
         ELSE IF task.schandle = NoneV
         THEN /\ UNCHANGED <<task, nat, ld>>
              /\ ncalls' = <<>>
              /\ ret' = Ret("Task.removeSCeval", "none", 0, "", 0)
         ELSE IF l.exc # "none"
         THEN /\ UNCHANGED <<task, nat>>
              /\ ld' = l.ld
              /\ ncalls' = <<>>
              /\ ret' = Ret("Task.removeSCeval", l.exc, 0, "", 0)
         ELSE /\ ld' = l.ld
              /\ task' = [task EXCEPT !.schandle = NoneV]
              /\ nat' = NatRemoveSCeval(nat, task)
              /\ ncalls' = Task_removeSCeval_calls(task)
              /\ ret' = Ret("Task.removeSCeval", "none", 0, "", 0)

\* how putSCeval's checks of the objective arguments (opro, oprjo, oprfo,
\* oprgo, oprho) and of the constraint arguments (oprc, opric, oprjc, oprfc,
\* oprgc, oprhc) end.  A group is "absent" when one of its arguments is None,
\* "ok" when the arrays have one length > 0 and hold scopr members,
\* "lengths" when the lengths differ, "notscopr" when an element of the
\* first array is no scopr member
SCArgKinds == {"absent", "ok", "lengths", "notscopr"}
SCObjCheck(obj) ==
  IF obj \in {"lengths", "notscopr"} THEN "SCoptException" ELSE "none"
SCConCheck(con) ==
  IF con = "lengths" THEN "ValueError"
  ELSE IF con = "notscopr" THEN "NameError"
  ELSE "none"

\* Task.putSCeval(opro, ..., oprhc): __load_scopt__(); a handle already in
\* the slot is ended with MSK_scend and the slot set to None; the arguments
\* are checked; when there is a nonlinear term the slot is given a fresh
\* c_void_p and MSK_scbegin is called with a reference to it; on status 0 the
\* handle is attached with MSK_scattach, otherwise
\* Error(rescode(result), msg) is raised from __getlasterror's answer
Task_putSCeval(obj, con, lo, st, n) ==
  /\ UNCHANGED <<en, ac>>
  /\ task.phase = "ok"
  /\ UNCHANGED <<env, lastreg, nrel>>
  /\ cb' = NoCb
  /\ buf' = <<>>
  /\ LET l == load_scopt(ld, lo)
         had == task.schandle # NoneV
         ended == IF had THEN <<SCall("MSK_scend", task.nativep, task.schandle, 0)>>
                  ELSE <<>>
         nat1 == IF had THEN NatScend(nat, task.schandle) ELSE nat
         check == IF SCObjCheck(obj) # "none" THEN SCObjCheck(obj)
                  ELSE SCConCheck(con)
         begin == SCall("MSK_scbegin", task.nativep, "", st)
         gle == Task_getlasterror(task.nativep, st, n.r1, n.r2, n.le, n.lm)
         err == RaiseError(gle.result, gle.msg)
     IN  /\ ld' = l.ld
         /\ IF l.exc # "none"
            THEN /\ UNCHANGED <<task, nat>>
                 /\ ncalls' = <<>>
                 /\ ret' = Ret("Task.putSCeval", l.exc, 0, "", 0)
            ELSE IF task.schandle = Unset
            THEN \* reading self.__schandle raises AttributeError
                 /\ UNCHANGED <<task, nat>>
                 /\ ncalls' = <<>>
                 /\ ret' = Ret("Task.putSCeval", "AttributeError", 0, "", 0)
            ELSE IF check # "none"
            THEN /\ task' = [task EXCEPT !.schandle = NoneV]
                 /\ nat' = nat1
                 /\ ncalls' = ended
                 /\ ret' = Ret("Task.putSCeval", check, 0, "", 0)
            ELSE IF obj = "absent" /\ con = "absent"
            THEN /\ task' = [task EXCEPT !.schandle = NoneV]
                 /\ nat' = nat1
                 /\ ncalls' = ended
                 /\ ret' = Ret("Task.putSCeval", "none", 0, "", 0)
            ELSE IF st # 0
            THEN \* the slot keeps the c_void_p made for the call
                 /\ task' = [task EXCEPT !.schandle = "nullh"]
                 /\ nat' = nat1
                 /\ ncalls' = ended \o <<begin>> \o gle.calls
                 /\ ret' = Ret("Task.putSCeval", err.exc, err.errno, err.msg, 0)
            ELSE /\ task' = [task EXCEPT !.schandle = "sch"]
                 /\ nat' = NatScattach(NatScbegin(nat1))
                 /\ ncalls' = ended \o <<begin,
                                SCall("MSK_scattach", task.nativep, "sch", 0)>>
                 /\ ret' = Ret("Task.putSCeval", "none", 0, "", 0)

\* Task.appendcons(num_): on success the native task holds num more constraints
Task_appendcons(num, st, n) ==
  /\ UNCHANGED <<en, ld, ac>>
  /\ task.phase = "ok"
  /\ nat.numcon + num <= MaxCon
  /\ UNCHANGED <<env, task, lastreg, nrel>>
  /\ cb' = NoCb
  /\ buf' = <<>>
  /\ LET c == TaskCall("MSK_XX_appendcons", task.nativep, st, n)
     IN  /\ ncalls' = c.calls
         /\ ret' = Ret("Task.appendcons", c.out.exc, c.out.errno, c.out.msg, 0)
         /\ nat' = IF st = 0 /\ task.nativep = "ptr"
                   THEN [nat EXCEPT !.numcon = @ + num] ELSE nat

\* Task.getnumcon(): returns the native task's number of constraints
Task_getnumcon_op(h, st, n) ==
  [calls |-> TaskCall("MSK_XX_getnumcon", h, st, n).calls,
   out   |-> TaskCall("MSK_XX_getnumcon", h, st, n).out,
   val   |-> IF st = 0 THEN nat.numcon ELSE 0]

Task_getnumcon(st, n) ==
  /\ UNCHANGED <<en, ld, ac>>
  /\ task.phase = "ok"
  /\ UNCHANGED <<env, task, nat, lastreg, nrel>>
  /\ cb' = NoCb
  /\ buf' = <<>>
  /\ LET c == Task_getnumcon_op(task.nativep, st, n)
     IN  /\ ncalls' = c.calls
         /\ ret' = Ret("Task.getnumcon", c.out.exc, c.out.errno, c.out.msg, c.val)

\* Task.appendvars(num_)
Task_appendvars(num, st, n) ==
  /\ UNCHANGED <<en, ld, ac>>
  /\ task.phase = "ok"
  /\ nat.numvar + num <= MaxVar
  /\ UNCHANGED <<env, task, lastreg, nrel>>
  /\ cb' = NoCb
  /\ buf' = <<>>
  /\ LET c == TaskCall("MSK_XX_appendvars", task.nativep, st, n)
     IN  /\ ncalls' = c.calls
         /\ ret' = Ret("Task.appendvars", c.out.exc, c.out.errno, c.out.msg, 0)
         /\ nat' = IF st = 0 /\ task.nativep = "ptr"
                   THEN [nat EXCEPT !.numvar = @ + num] ELSE nat

\* a getnumvar that returns its freshly made c_int32 without the native value
Task_getnumvar_op_unread(h, st, n) ==
  [calls |-> TaskCall("MSK_XX_getnumvar", h, st, n).calls,
   out   |-> TaskCall("MSK_XX_getnumvar", h, st, n).out,
   val   |-> 0]

\* Task.getnumvar(): returns the native task's number of variables
Task_getnumvar_op(h, st, n) ==
  [calls |-> TaskCall("MSK_XX_getnumvar", h, st, n).calls,
   out   |-> TaskCall("MSK_XX_getnumvar", h, st, n).out,
   val   |-> IF st = 0 THEN nat.numvar ELSE 0]

Task_getnumvar(st, n) ==
  /\ UNCHANGED <<en, ld, ac>>
  /\ task.phase = "ok"
  /\ UNCHANGED <<env, task, nat, lastreg, nrel>>
  /\ cb' = NoCb
  /\ buf' = <<>>
  /\ LET c == Task_getnumvar_op(task.nativep, st, n)
     IN  /\ ncalls' = c.calls
         /\ ret' = Ret("Task.getnumvar", c.out.exc, c.out.errno, c.out.msg, c.val)

(***************************************************************************)
(* Callback registration.                                                  *)
(***************************************************************************)
\* the arguments callers pass where a mosek.streamtype is expected
\* (streamtype.log = 0, streamtype.err = 2, and the raw integer 0)
StreamArgs == {[enum |-> "streamtype", v |-> 0], [enum |-> "streamtype", v |-> 2],
               [enum |-> "int", v |-> 0]}

\* the native engine's side of a link call: a successful call installs the
\* trampoline when one is given and removes the linkage when NULL is given
NatLink(links, w, func, st) ==
  IF st = 0 THEN [links EXCEPT ![w] = (func # NoneV)] ELSE links

\* Env.set_Stream(whichstream, func)
Env_set_Stream(ws, func, st) ==
  /\ UNCHANGED <<en, ld, ac>>
  /\ env.phase = "ok"
  /\ UNCHANGED <<task, nrel>>
  /\ cb' = NoCb
  /\ buf' = <<>>
  /\ IF ws.enum # "streamtype"
     THEN /\ UNCHANGED <<env, nat, lastreg>>
          /\ ncalls' = <<>>
          /\ ret' = Ret("Env.set_Stream", "TypeError", 0, "", 0)
     ELSE IF ~env.attrs
     THEN \* self.__stream_func is gone after teardown
          /\ UNCHANGED <<env, nat, lastreg>>
          /\ ncalls' = <<>>
          /\ ret' = Ret("Env.set_Stream", "AttributeError", 0, "", 0)
     ELSE /\ env' = [env EXCEPT !.stream_func[ws.v] = func]
          /\ lastreg' = [lastreg EXCEPT !.estream[ws.v] = func]
          /\ nat' = [nat EXCEPT !.envlink = NatLink(@, ws.v, func, st)]
          /\ ncalls' = <<NCall("MSK_XX_linkfunctoenvstream", env.nativep, st)>>
          /\ ret' = Ret("Env.set_Stream", "none", 0, "", ws.v)

\* Task.set_Stream(whichstream, func)
Task_set_Stream(ws, func, st) ==
  /\ UNCHANGED <<en, ld, ac>>
  /\ task.phase = "ok"
  /\ UNCHANGED <<env, nrel>>
  /\ cb' = NoCb
  /\ buf' = <<>>
  /\ IF ws.enum # "streamtype"
     THEN /\ UNCHANGED <<task, nat, lastreg>>
          /\ ncalls' = <<>>
          /\ ret' = Ret("Task.set_Stream", "TypeError", 0, "", 0)
     ELSE IF ~task.attrs
     THEN /\ UNCHANGED <<task, nat, lastreg>>
          /\ ncalls' = <<>>
          /\ ret' = Ret("Task.set_Stream", "AttributeError", 0, "", 0)
     ELSE /\ task' = [task EXCEPT !.stream_func[ws.v] = func]
          /\ lastreg' = [lastreg EXCEPT !.tstream[ws.v] = func]
          /\ nat' = [nat EXCEPT !.tasklink = NatLink(@, ws.v, func, st)]
          /\ ncalls' = <<NCall("MSK_XX_linkfunctotaskstream", task.nativep, st)>>
          /\ ret' = Ret("Task.set_Stream", "none", 0, "", ws.v)

\* the part of set_Progress / set_InfoCallback after the slot is stored: None
\* makes no native call (the detaching call is commented out); a callable
\* installs the progress trampoline, and the status is dropped
Task_putcallback(op, func, st) ==
  IF func = NoneV
  THEN /\ nat' = nat
       /\ ncalls' = <<>>
       /\ ret' = Ret(op, "none", 0, "", 0)
  ELSE IF ~task.attrs
  THEN \* self.__library is gone after teardown
       /\ nat' = nat
       /\ ncalls' = <<>>
       /\ ret' = Ret(op, "AttributeError", 0, "", 0)
  ELSE /\ nat' = [nat EXCEPT !.taskcb = IF st = 0 THEN TRUE ELSE @]
       /\ ncalls' = <<NCall("MSK_XX_putcallbackfunc", task.nativep, st)>>
       /\ ret' = Ret(op, "none", 0, "", 0)

\* set_Progress with the slot left as it is when None is registered
Task_set_Progress_keep(func, st) ==
  /\ UNCHANGED <<en, ld, ac>>
  /\ task.phase = "ok"
  /\ UNCHANGED <<env, nrel>>
  /\ cb' = NoCb
  /\ buf' = <<>>
  /\ task' = [task EXCEPT !.progress_func = IF func = NoneV THEN @ ELSE func]
  /\ lastreg' = [lastreg EXCEPT !.progress = func]
  /\ Task_putcallback("Task.set_Progress", func, st)

\* Task.set_Progress(func)
Task_set_Progress(func, st) ==
  /\ UNCHANGED <<en, ld, ac>>
  /\ task.phase = "ok"
  /\ UNCHANGED <<env, nrel>>
  /\ cb' = NoCb
  /\ buf' = <<>>
  /\ task' = [task EXCEPT !.progress_func = func]
  /\ lastreg' = [lastreg EXCEPT !.progress = func]
  /\ Task_putcallback("Task.set_Progress", func, st)

\* Task.set_InfoCallback(func)
Task_set_InfoCallback(func, st) ==
  /\ UNCHANGED <<en, ld, ac>>
  /\ task.phase = "ok"
  /\ UNCHANGED <<env, nrel>>
  /\ cb' = NoCb
  /\ buf' = <<>>
  /\ task' = [task EXCEPT !.infocallback_func = func]
  /\ lastreg' = [lastreg EXCEPT !.info = func]
  /\ Task_putcallback("Task.set_InfoCallback", func, st)

(***************************************************************************)
(* Trampolines, invoked by the native engine.  The engine invokes a        *)
(* trampoline only on a native object that exists and only while the       *)
(* trampoline is linked.  A user callable, when called, returns an int,    *)
(* returns something that is not an int, or raises.                        *)
(***************************************************************************)
Behaviours == {[k |-> "int", v |-> 0], [k |-> "int", v |-> 1],
               [k |-> "nonint", v |-> 0], [k |-> "raise", v |-> 0]}

\* phase codes the engine passes: one declared callbackcode and one undeclared
CallerCodes == {0, 93}

\* one call of a user callable f stored in slot: what the trampoline sees
UserCall(slot, f, b) ==
  [inv |-> <<[slot |-> slot, f |-> f]>>, raised |-> b.k = "raise",
   isint |-> b.k = "int", v |-> b.v]

\* the try-block of progress_proxy: the info callback, then the progress
\* callback, the later result replacing the earlier one
progress_proxy_try(caller, info, prog, bi, bp) ==
  LET ci == UserCall("info", info, bi)
      cp == UserCall("progress", prog, bp)
  IN  IF caller \notin callbackcode_values
      THEN \* callbackcode(caller) raises KeyError
           [invoked |-> <<>>, uraise |-> FALSE, raised |-> TRUE, r |-> 0]
      ELSE IF info \notin {NoneV, Unset} /\ ci.raised
      THEN [invoked |-> ci.inv, uraise |-> TRUE, raised |-> TRUE, r |-> 0]
      ELSE IF prog \notin {NoneV, Unset} /\ cp.raised
      THEN [invoked |-> (IF info \notin {NoneV, Unset} THEN ci.inv ELSE <<>>) \o cp.inv,
            uraise |-> TRUE, raised |-> TRUE, r |-> 0]
      ELSE [invoked |-> (IF info \notin {NoneV, Unset} THEN ci.inv ELSE <<>>)
                        \o (IF prog \notin {NoneV, Unset} THEN cp.inv ELSE <<>>),
            uraise |-> FALSE, raised |-> FALSE,
            r |-> IF prog \notin {NoneV, Unset}
                  THEN (IF cp.isint THEN cp.v ELSE 0)
                  ELSE IF info \notin {NoneV, Unset}
                  THEN (IF ci.isint THEN ci.v ELSE 0)
                  ELSE 0]

\* progress_proxy without its except clause
progress_proxy_nocatch(caller, info, prog, bi, bp) ==
  progress_proxy_try(caller, info, prog, bi, bp)

\* a progress_proxy that asks the engine to stop when it has nothing to call
progress_proxy_idle_stops(caller, info, prog, bi, bp) ==
  LET t == progress_proxy_try(caller, info, prog, bi, bp)
  IN  IF t.raised THEN [t EXCEPT !.raised = FALSE, !.r = -1]
      ELSE IF t.invoked = <<>> THEN [t EXCEPT !.r = -1] ELSE t

\* a progress_proxy that keeps a non-zero value returned by the info callback
progress_proxy_info_stops(caller, info, prog, bi, bp) ==
  LET t == progress_proxy_try(caller, info, prog, bi, bp)
  IN  IF t.raised THEN [t EXCEPT !.raised = FALSE, !.r = -1]
      ELSE IF info \notin {NoneV, Unset} /\ bi.k = "int" /\ bi.v # 0
      THEN [t EXCEPT !.r = bi.v] ELSE t

\* progress_proxy: except: traceback.print_exc(); return -1
progress_proxy(caller, info, prog, bi, bp) ==
  LET t == progress_proxy_try(caller, info, prog, bi, bp)
  IN  IF t.raised THEN [t EXCEPT !.raised = FALSE, !.r = -1] ELSE t

\* Task.__init__.stream_proxy: a stored callable is called inside try/except,
\* the except clause discards the exception
Task_stream_proxy_fn(func, b) ==
  IF func = NoneV
  THEN [invoked |-> <<>>, uraise |-> FALSE, raised |-> FALSE, r |-> 0]
  ELSE [invoked |-> UserCall("stream", func, b).inv, uraise |-> b.k = "raise",
        raised |-> FALSE, r |-> 0]

\* Env.__init__.stream_proxy: try: if func: func(msg) / except: pass
Env_stream_proxy_fn(func, b) ==
  IF func = NoneV
  THEN [invoked |-> <<>>, uraise |-> FALSE, raised |-> FALSE, r |-> 0]
  ELSE [invoked |-> UserCall("stream", func, b).inv, uraise |-> b.k = "raise",
        raised |-> FALSE, r |-> 0]

\* what the trampoline invocation leaves for inspection: regs is the value
\* last registered on each slot the trampoline serves, at the time of the call
CbRecord(chan, w, p, regs) ==
  [chan |-> chan, w |-> w, invoked |-> p.invoked, uraise |-> p.uraise,
   raised |-> p.raised, r |-> p.r, regs |-> regs, caller |-> 0, rets |-> <<>>]

\* what the user callables called by one progress_proxy invocation did, in
\* the order of the calls
Returned(p, bi, bp) ==
  [i \in DOMAIN p.invoked |-> IF p.invoked[i].slot = "info" THEN bi ELSE bp]

Task_progress_proxy(caller, bi, bp) ==
  /\ UNCHANGED <<en, ld, ac>>
  /\ nat.task = "live" /\ nat.taskcb /\ task.attrs
  /\ UNCHANGED <<env, task, nat, lastreg, nrel>>
  /\ ret' = NoRet /\ ncalls' = <<>> /\ buf' = <<>>
  /\ LET p == progress_proxy(caller, task.infocallback_func,
                             task.progress_func, bi, bp)
     IN  cb' = [CbRecord("progress", 0, p,
                         [info |-> lastreg.info, progress |-> lastreg.progress])
                  EXCEPT !.caller = caller, !.rets = Returned(p, bi, bp)]

Task_stream_proxy(w, b) ==
  /\ UNCHANGED <<en, ld, ac>>
  /\ nat.task = "live" /\ nat.tasklink[w] /\ task.attrs
  /\ UNCHANGED <<env, task, nat, lastreg, nrel>>
  /\ ret' = NoRet /\ ncalls' = <<>> /\ buf' = <<>>
  /\ cb' = CbRecord("tstream", w, Task_stream_proxy_fn(task.stream_func[w], b),
                    [stream |-> lastreg.tstream[w]])

Env_stream_proxy(w, b) ==
  /\ UNCHANGED <<en, ld, ac>>
  /\ nat.env = "live" /\ nat.envlink[w] /\ env.attrs
  /\ UNCHANGED <<env, task, nat, lastreg, nrel>>
  /\ ret' = NoRet /\ ncalls' = <<>> /\ buf' = <<>>
  /\ cb' = CbRecord("estream", w, Env_stream_proxy_fn(env.stream_func[w], b),
                    [stream |-> lastreg.estream[w]])

(***************************************************************************)
(* Array arguments.  An array argument is None or a Python sequence of     *)
(* some length: a numpy array (of some element type, contiguous or not,    *)
(* writeable or not), a list or a tuple.  The generated wrappers compare   *)
(* its length with the expected one, check that an output array is         *)
(* writeable, bind it (borrowed or through a temporary copy), make the     *)
(* native call and copy the temporary back.  Element values are counted in *)
(* halves, so that 3 stands for 1.5 and an int32 element is an even number.*)
(***************************************************************************)
\* the Python objects a caller passes as an array
ArrayKinds == {"nd_f64", "nd_f64_ro", "nd_f64_strided", "nd_i32", "list", "tuple"}

\* isinstance(v, numpy.ndarray), v.flags.writeable, v.flags.contiguous, v.dtype
IsNdarray(k) == k \in {"nd_f64", "nd_f64_ro", "nd_f64_strided", "nd_i32"}
Writeable(k) == k # "nd_f64_ro"
Contiguous(k) == k # "nd_f64_strided"
Dtype(k) == IF k = "nd_i32" THEN "int32" ELSE "float64"

\* what the caller's sequences hold before the call
ZeroData(l) == [i \in 1..l |-> 0]

ArrayArgs == {[none |-> TRUE, len |-> 0, kind |-> "list", data |-> <<>>]}
             \cup {[none |-> FALSE, len |-> l, kind |-> k, data |-> ZeroData(l)] :
                     l \in 0..MaxLen, k \in ArrayKinds}

\* what the properties mean by "an array of the wrong length": an array was
\* supplied and its length is not the expected one
WrongLength(arr, expected) == ~arr.none /\ arr.len # expected

\* the length check with "too short" in place of "different"
LenMismatch_short(arr, expected) == ~arr.none /\ arr.len < expected

\* x_ is not None and len(x_) != (expected)
LenMismatch(arr, expected) == ~arr.none /\ arr.len # expected

\* isinstance(y_,numpy.ndarray) and not y_.flags.writeable
NotWriteable(arr) == ~arr.none /\ IsNdarray(arr.kind) /\ ~Writeable(arr.kind)

\* the binding of one array: None is passed on as NULL; a contiguous ndarray
\* of the required element type is borrowed; anything else goes through
\* numpy.array(v, dtype), a temporary copy
BindArray(arr, dtype) ==
  IF arr.none THEN "none"
  ELSE IF IsNdarray(arr.kind) /\ Dtype(arr.kind) = dtype /\ Contiguous(arr.kind)
  THEN "borrowed"
  ELSE "copy"

\* storing a value into an element of the given type: an int32 element keeps
\* the integer part
CastTo(v, dtype) == IF dtype = "int32" THEN (v \div 2) * 2 ELSE v

\* v_[:] = tmp_arr: a tuple has no item assignment, a list takes the elements
\* as they are, an ndarray converts each to its own element type
StoreSlice(arr, tmp) ==
  IF arr.kind = "tuple"
  THEN [exc |-> "TypeError", data |-> arr.data]
  ELSE IF IsNdarray(arr.kind) /\ ~Writeable(arr.kind)
  THEN [exc |-> "ValueError", data |-> arr.data]
  ELSE IF IsNdarray(arr.kind)
  THEN [exc |-> "none", data |-> [i \in 1..arr.len |-> CastTo(tmp[i], Dtype(arr.kind))]]
  ELSE [exc |-> "none", data |-> tmp]

\* the values the native engine writes into an output buffer of l elements
OutVals(dtype) == IF dtype = "int32" THEN {2, 4} ELSE {3, 4}
NativeOut(dtype, l) == [1..l -> OutVals(dtype)]

\* the write-back with the status check left out
WriteBack_unchecked(arr, dtype, st, wrote, out) ==
  IF arr.none
  THEN [exc |-> "none", data |-> arr.data]
  ELSE IF BindArray(arr, dtype) = "borrowed"
  THEN [exc |-> "none", data |-> IF st = 0 \/ wrote THEN out ELSE arr.data]
  ELSE StoreSlice(arr, out)

\* what the caller's output array holds after the native call returned st and
\* the wrapper ran to its end or to its raise: a borrowed array was written by
\* the engine itself (on a failing call, wrote says whether it was written);
\* a temporary is copied back only past the status check
WriteBack(arr, dtype, st, wrote, out) ==
  IF arr.none
  THEN [exc |-> "none", data |-> arr.data]
  ELSE IF BindArray(arr, dtype) = "borrowed"
  THEN [exc |-> "none", data |-> IF st = 0 \/ wrote THEN out ELSE arr.data]
  ELSE IF st # 0
  THEN [exc |-> "none", data |-> arr.data]
  ELSE StoreSlice(arr, out)

\* one array argument as the caller sees it: bound is "unbound" when the
\* wrapper raised before binding it; native is what the buffer handed to the
\* engine held when the native call returned
BufRec(name, arr, dtype, output, bound, native, after) ==
  [name |-> name, none |-> arr.none, kind |-> arr.kind, dtype |-> dtype,
   output |-> output, bound |-> bound, before |-> arr.data, native |-> native,
   after |-> after]

Unbound(name, arr, dtype, output) ==
  BufRec(name, arr, dtype, output, "unbound", arr.data, arr.data)
\* an array that was bound, and no native call followed
Bound(name, arr, dtype, output) ==
  BufRec(name, arr, dtype, output, BindArray(arr, dtype), arr.data, arr.data)
\* an output array that was bound and handed to the native call
Passed(name, arr, dtype, native, after) ==
  BufRec(name, arr, dtype, TRUE, BindArray(arr, dtype),
         IF arr.none THEN arr.data ELSE native, after)

\* an array the caller holds and has not passed to a wrapper yet
Pending(arr) == BufRec("", arr, "", FALSE, "pending", arr.data, arr.data)
ArgOf(rec) == [none |-> rec.none, len |-> Len(rec.before), kind |-> rec.kind,
               data |-> rec.before]
IsPending(n) == Len(buf) = n /\ \A i \in 1..n : buf[i].bound = "pending"

\* the caller makes the arrays of its next call (one or two of them); it
\* holds no other arrays at that time
Caller_arrays(arrs) ==
  /\ UNCHANGED <<en, ld, ac>>
  /\ buf = <<>>
  /\ buf' = [i \in 1..Len(arrs) |-> Pending(arrs[i])]
  /\ UNCHANGED <<env, task, nat, ret, ncalls, cb, lastreg, nrel>>

\* Env.axpy(n_, alpha_, x_, y_): the checks in source order, the call, the
\* write-back of y_
Env_axpy(n, x, y, st, wrote, out) ==
  /\ UNCHANGED <<en, ld, ac>>
  /\ env.phase = "ok"
  /\ buf = <<Pending(x), Pending(y)>>
  /\ UNCHANGED <<env, task, nat, lastreg, nrel>>
  /\ cb' = NoCb
  /\ LET bad == IF WrongLength(x, n) \/ WrongLength(y, n) THEN 1 ELSE 0
         c   == EnvCall("MSK_XX_axpy", env.nativep, st)
         wb  == WriteBack(y, "float64", st, wrote, out)
         xin == Bound("x", x, "float64", FALSE)
     IN  IF LenMismatch(x, n) \/ x.none
         THEN /\ ncalls' = <<>>
              /\ ret' = Ret("Env.axpy", "ValueError", 0, "", bad)
              /\ buf' = <<Unbound("x", x, "float64", FALSE),
                          Unbound("y", y, "float64", TRUE)>>
         ELSE IF LenMismatch(y, n) \/ NotWriteable(y) \/ y.none
         THEN /\ ncalls' = <<>>
              /\ ret' = Ret("Env.axpy", "ValueError", 0, "", bad)
              /\ buf' = <<xin, Unbound("y", y, "float64", TRUE)>>
         ELSE IF c.out.exc # "none"
         THEN /\ ncalls' = c.calls
              /\ ret' = Ret("Env.axpy", c.out.exc, c.out.errno, c.out.msg, bad)
              /\ buf' = <<xin, Passed("y", y, "float64", out, wb.data)>>
         ELSE /\ ncalls' = c.calls
              /\ ret' = Ret("Env.axpy", wb.exc, 0, "", bad)
              /\ buf' = <<xin, Passed("y", y, "float64", out, wb.data)>>

\* one length check against self.getnumcon(): the query is a wrapped native
\* call of its own and may raise; sg is the status MSK_XX_getnumcon returns.
\* The writeable check of the output array follows it
NumconCheck(arr, h, sg, n) ==
  IF arr.none
  THEN [calls |-> <<>>, out |-> OkOut]
  ELSE LET g == Task_getnumcon_op(h, sg, n)
       IN  IF g.out.exc # "none"
           THEN [calls |-> g.calls, out |-> g.out]
           ELSE IF LenMismatch(arr, g.val)
           THEN [calls |-> g.calls, out |-> Raise("ValueError")]
           ELSE IF NotWriteable(arr)
           THEN [calls |-> g.calls, out |-> Raise("ValueError")]
           ELSE [calls |-> g.calls, out |-> OkOut]

\* Task.initbasissolve(basis_)
Task_initbasissolve(basis, sg, st, n, wrote, out) ==
  /\ UNCHANGED <<en, ld, ac>>
  /\ task.phase = "ok"
  /\ buf = <<Pending(basis)>>
  /\ UNCHANGED <<env, task, nat, lastreg, nrel>>
  /\ cb' = NoCb
  /\ LET bad == IF WrongLength(basis, nat.numcon) THEN 1 ELSE 0
         k   == NumconCheck(basis, task.nativep, sg, n)
         c   == TaskCall("MSK_XX_initbasissolve", task.nativep, st, n)
         wb  == WriteBack(basis, "int32", st, wrote, out)
     IN  IF k.out.exc # "none"
         THEN /\ ncalls' = k.calls
              /\ ret' = Ret("Task.initbasissolve", k.out.exc, k.out.errno, k.out.msg, bad)
              /\ buf' = <<Unbound("basis", basis, "int32", TRUE)>>
         ELSE IF c.out.exc # "none"
         THEN /\ ncalls' = k.calls \o c.calls
              /\ ret' = Ret("Task.initbasissolve", c.out.exc, c.out.errno, c.out.msg, bad)
              /\ buf' = <<Passed("basis", basis, "int32", out, wb.data)>>
         ELSE /\ ncalls' = k.calls \o c.calls
              /\ ret' = Ret("Task.initbasissolve", wb.exc, 0, "", bad)
              /\ buf' = <<Passed("basis", basis, "int32", out, wb.data)>>

\* Task.solvewithbasis(transp_, numnz_, sub_, val_): sub_ is checked and bound
\* before val_ is checked; after the call sub_ is written back before val_
Task_solvewithbasis(sub, val, sg1, sg2, st, n, wrote, outs, outv) ==
  /\ UNCHANGED <<en, ld, ac>>
  /\ task.phase = "ok"
  /\ buf = <<Pending(sub), Pending(val)>>
  /\ UNCHANGED <<env, task, nat, lastreg, nrel>>
  /\ cb' = NoCb
  /\ LET bad == IF WrongLength(sub, nat.numcon) \/ WrongLength(val, nat.numcon)
                THEN 1 ELSE 0
         k1  == NumconCheck(sub, task.nativep, sg1, n)
         k2  == NumconCheck(val, task.nativep, sg2, n)
         c   == TaskCall("MSK_XX_solvewithbasis", task.nativep, st, n)
         ws  == WriteBack(sub, "int32", st, wrote, outs)
         wv  == WriteBack(val, "float64", st, wrote, outv)
         \* val_ as the engine left it when the write-back of sub_ raised
         wv0 == WriteBack(val, "float64", 1, TRUE, outv)
     IN  IF k1.out.exc # "none"
         THEN /\ ncalls' = k1.calls
              /\ ret' = Ret("Task.solvewithbasis", k1.out.exc, k1.out.errno, k1.out.msg, bad)
              /\ buf' = <<Unbound("sub", sub, "int32", TRUE),
                          Unbound("val", val, "float64", TRUE)>>
         ELSE IF k2.out.exc # "none"
         THEN /\ ncalls' = k1.calls \o k2.calls
              /\ ret' = Ret("Task.solvewithbasis", k2.out.exc, k2.out.errno, k2.out.msg, bad)
              /\ buf' = <<Bound("sub", sub, "int32", TRUE),
                          Unbound("val", val, "float64", TRUE)>>
         ELSE IF c.out.exc # "none"
         THEN /\ ncalls' = k1.calls \o k2.calls \o c.calls
              /\ ret' = Ret("Task.solvewithbasis", c.out.exc, c.out.errno, c.out.msg, bad)
              /\ buf' = <<Passed("sub", sub, "int32", outs, ws.data),
                          Passed("val", val, "float64", outv, wv.data)>>
         ELSE IF ws.exc # "none"
         THEN /\ ncalls' = k1.calls \o k2.calls \o c.calls
              /\ ret' = Ret("Task.solvewithbasis", ws.exc, 0, "", bad)
              /\ buf' = <<Passed("sub", sub, "int32", outs, ws.data),
                          Passed("val", val, "float64", outv, wv0.data)>>
         ELSE /\ ncalls' = k1.calls \o k2.calls \o c.calls
              /\ ret' = Ret("Task.solvewithbasis", wv.exc, 0, "", bad)
              /\ buf' = <<Passed("sub", sub, "int32", outs, ws.data),
                          Passed("val", val, "float64", outv, wv.data)>>

\* an input list handed to the native call as a ctypes array of c_int32 built from its elements
Copied(name, arr, dtype) ==
  BufRec(name, arr, dtype, FALSE, "copy", arr.data, arr.data)

\* Task.putvarboundlist(sub_, bkx_, blx_, bux_): num_ = len(sub_), each other
\* length compared with it (len(None) raises TypeError), the four arrays
\* bound, the call; the value recorded is the length passed to the engine
Task_putvarboundlist(sub, bkx, blx, bux, st, n) ==
  /\ UNCHANGED <<en, ld, ac>>
  /\ task.phase = "ok"
  /\ buf = <<Pending(sub), Pending(bkx), Pending(blx), Pending(bux)>>
  /\ UNCHANGED <<env, task, nat, lastreg, nrel>>
  /\ cb' = NoCb
  /\ LET c == TaskCall("MSK_XX_putvarboundlist", task.nativep, st, n)
         unbound == <<Unbound("sub", sub, "int32", FALSE),
                      Unbound("bkx", bkx, "int32", FALSE),
                      Unbound("blx", blx, "float64", FALSE),
                      Unbound("bux", bux, "float64", FALSE)>>
         others == <<bkx, blx, bux>>
         \* the first array at which the length checks stop, 0 when they pass
         bad == {i \in 1..3 : others[i].none \/ others[i].len # sub.len}
         first == IF bad = {} THEN 0 ELSE CHOOSE i \in bad : \A j \in bad : i <= j
     IN  IF sub.none \/ (first # 0 /\ others[first].none)
         THEN /\ ncalls' = <<>>
              /\ ret' = Ret("Task.putvarboundlist", "TypeError", 0, "", 0)
              /\ buf' = unbound
         ELSE IF first # 0
         THEN /\ ncalls' = <<>>
              /\ ret' = Ret("Task.putvarboundlist", "IndexError", 0, "", 0)
              /\ buf' = unbound
         ELSE /\ ncalls' = c.calls
              /\ ret' = Ret("Task.putvarboundlist", c.out.exc, c.out.errno,
                            c.out.msg, sub.len)
              /\ buf' = <<Bound("sub", sub, "int32", FALSE),
                          Copied("bkx", bkx, "int32"),
                          Bound("blx", blx, "float64", FALSE),
                          Bound("bux", bux, "float64", FALSE)>>

\* boundkey = Enum("boundkey", ["fr","fx","lo","ra","up"], [3,2,0,4,1])
boundkey_values == {3, 2, 0, 4, 1}

\* Task.putvarboundslice(first_, last_, bk_, bl_, bu_) behind
\* @accepts(..., _make_anyenumvector(boundkey), ...), a contract that returns
\* its argument: for each array the length check and the None check, then
\* the binding; bk_ is copied element by element into a ctypes array of
\* c_int32; then the call
Task_putvarboundslice(first, last, bk, bl, bu, st, n) ==
  /\ UNCHANGED <<en, ld, ac>>
  /\ task.phase = "ok"
  /\ buf = <<Pending(bk), Pending(bl), Pending(bu)>>
  /\ UNCHANGED <<env, task, nat, lastreg, nrel>>
  /\ cb' = NoCb
  /\ LET c == TaskCall("MSK_XX_putvarboundslice", task.nativep, st, n)
         ubk == Unbound("bk", bk, "int32", FALSE)
         ubl == Unbound("bl", bl, "float64", FALSE)
         ubu == Unbound("bu", bu, "float64", FALSE)
         cbk == Copied("bk", bk, "int32")
         bbl == Bound("bl", bl, "float64", FALSE)
     IN  IF LenMismatch(bk, last - first) \/ bk.none
         THEN /\ ncalls' = <<>>
              /\ ret' = Ret("Task.putvarboundslice", "ValueError", 0, "", 0)
              /\ buf' = <<ubk, ubl, ubu>>
         ELSE IF LenMismatch(bl, last - first) \/ bl.none
         THEN /\ ncalls' = <<>>
              /\ ret' = Ret("Task.putvarboundslice", "ValueError", 0, "", 0)
              /\ buf' = <<cbk, ubl, ubu>>
         ELSE IF LenMismatch(bu, last - first) \/ bu.none
         THEN /\ ncalls' = <<>>
              /\ ret' = Ret("Task.putvarboundslice", "ValueError", 0, "", 0)
              /\ buf' = <<cbk, bbl, ubu>>
         ELSE /\ ncalls' = c.calls
              /\ ret' = Ret("Task.putvarboundslice", c.out.exc, c.out.errno,
                            c.out.msg, 0)
              /\ buf' = <<cbk, bbl, Bound("bu", bu, "float64", FALSE)>>

(***************************************************************************)
(* Calls through the wrapper built by accepts().                           *)
(***************************************************************************)
\* the contract lists of appendcons, checkoutlicense, putlicensepath and
\* putcfix
Signatures ==
  {<<Contract("_accept_any"), Contract("_make_int")>>,
   <<Contract("_accept_any"), EnumContract("feature")>>,
   <<Contract("_accept_any"), Contract("_accept_str")>>,
   <<Contract("_accept_any"), Contract("_make_double")>>}

\* the values callers pass
ArgValues ==
  {PyInt(1), PyFloat(3), PyNumStr(2), PyStr, PyNone,
   PyMember("feature", 1), PyMember("streamtype", 1)}

\* a call f(args) of a function f declared with @accepts(argtlst); one call
\* is observed
Accepts_call(argtlst, args) ==
  /\ ~ac.made
  /\ ac' = [argtlst |-> argtlst, args |-> args, made |-> TRUE]
             @@ accept(argtlst, args)
  /\ UNCHANGED <<env, task, nat, ret, ncalls, cb, lastreg, nrel, buf, en, ld>>

(***************************************************************************)
(* Enumeration operations.                                                 *)
(***************************************************************************)
\* the names and codes callers declare, and the strings they ask for
EnumNames == {<<"a">>, <<"b">>, <<"1", "a">>, <<"a", "\n">>}
EnumCodes == {0, 1}
SeqsUpTo(S, l) == UNION {[1..k -> S] : k \in 0..l}
Qualified(q, n) == <<q, ".">> \o n
EnumRequests ==
  {IntReq(c) : c \in 0..2}
  \cup {StrReq(n) : n \in {<<"a">>, <<"b">>, <<"c">>}}
  \cup {StrReq(Qualified(q, n)) : q \in {"E", "F"}, n \in {<<"a">>, <<"c">>}}
  \cup {OtherReq}

\* X = Enum("E", names, values)
Enum_create(names, values) ==
  /\ en' = Enum(<<"E">>, names, values)
  /\ ret' = Ret("Enum", IF en'.phase = "built" THEN "none" ELSE "ValueError", 0, "", 0)
  /\ ncalls' = <<>>
  /\ cb' = NoCb
  /\ buf' = <<>>
  /\ UNCHANGED <<env, task, nat, lastreg, nrel, ld, ac>>

\* X(value)
Enum_lookup(value) ==
  /\ en.phase = "built"
  /\ LET g == EnumBase_new(en, value)
     IN  /\ en' = [en EXCEPT !.req = value, !.got = g]
         /\ ret' = Ret("EnumBase.__new__", g.exc, 0, "", g.item.code)
  /\ ncalls' = <<>>
  /\ cb' = NoCb
  /\ buf' = <<>>
  /\ UNCHANGED <<env, task, nat, lastreg, nrel, ld, ac>>

(***************************************************************************)
(* The native engine's answers.  A status that the operation never reads   *)
(* (because an earlier call already failed) is fixed to 0, so that each    *)
(* run of an operation is enumerated once.                                 *)
(***************************************************************************)
\* statuses of calls whose status the binding drops, and of MSK_XX_getlasterror64
MinorStatus == {0, 1001}

NoAnswers == [r1 |-> 0, r2 |-> 0, r3 |-> 0, d |-> "d1", le |-> 1001, lm |-> "last"]

FailAnswers ==
  {n \in [r1 : MinorStatus, r2 : MinorStatus, r3 : NativeStatus, d : Desc,
          le : {1001}, lm : {"last"}] :
     /\ n.r1 # 0 => n.r2 = 0
     /\ n.r3 # 0 => n.d = "d1"}

AnswersFor(failed) == IF failed THEN FailAnswers ELSE {NoAnswers}

\* the answers enumerated for the array wrappers, whose length checks do not
\* depend on them: the description fetch succeeds or fails
FewAnswersFor(failed) ==
  IF failed
  THEN {n \in FailAnswers : n.r1 = 0 /\ n.r2 = 0 /\ n.d = "d1" /\ n.r3 \in MinorStatus}
  ELSE {NoAnswers}

StatusIf(used) == IF used THEN NativeStatus ELSE {0}
MinorIf(used) == IF used THEN MinorStatus ELSE {0}

Env_init_step ==
  \E lf \in BOOLEAN, s \in NativeStatus :
    \E r \in StatusIf(s = 0 /\ lf) :
      \E g \in MinorIf(s = 0 /\ r = 0), d \in MinorIf(s = 0 /\ r # 0) :
        Env_init(lf, s, r, g, d)

Env_del_step ==
  \E how \in {"exit", "finalize"}, c1 \in StatusIf(env.nativep # NoneV) :
    \E c2 \in StatusIf(env.nativep # NoneV /\ c1 = 0) :
      \E d \in MinorIf(env.nativep # NoneV /\ c1 = 0 /\ c2 = 0) :
        Env_del(how, <<c1, c2>>, d)

Env_checkoutlicense_step ==
  \E a \in FeatureArgs : \E st \in StatusIf(a.enum = "feature") :
    Env_checkoutlicense(a, st)

Task_init_step ==
  \E how \in {"env", "other", "nativep", "bad"} :
    \E s \in StatusIf(how \in {"env", "other"}) : \E d \in MinorIf(s # 0) :
      Task_init(how, s, d)

Task_del_step ==
  \E how \in {"exit", "finalize"}, d \in MinorIf(task.nativep \notin {NoneV, Unset}) :
    Task_del(how, d)

Task_appendcons_step ==
  \E num \in 1..MaxCon, st \in NativeStatus : \E n \in AnswersFor(st # 0) :
    Task_appendcons(num, st, n)

Task_getnumcon_step ==
  \E st \in NativeStatus : \E n \in AnswersFor(st # 0) : Task_getnumcon(st, n)

Env_set_Stream_step ==
  \E ws \in StreamArgs, func \in Funcs \cup {NoneV} :
    \E st \in MinorIf(ws.enum = "streamtype" /\ env.attrs) :
      Env_set_Stream(ws, func, st)

Task_set_Stream_step ==
  \E ws \in StreamArgs, func \in Funcs \cup {NoneV} :
    \E st \in MinorIf(ws.enum = "streamtype" /\ task.attrs) :
      Task_set_Stream(ws, func, st)

Task_set_Progress_step ==
  \E func \in Funcs \cup {NoneV} : \E st \in MinorIf(func # NoneV /\ task.attrs) :
    Task_set_Progress(func, st)

Task_set_InfoCallback_step ==
  \E func \in Funcs \cup {NoneV} : \E st \in MinorIf(func # NoneV /\ task.attrs) :
    Task_set_InfoCallback(func, st)

Task_progress_proxy_step ==
  \E caller \in CallerCodes, bi, bp \in Behaviours : Task_progress_proxy(caller, bi, bp)

Task_stream_proxy_step ==
  \E w \in streamtype_values, b \in Behaviours : Task_stream_proxy(w, b)

Env_stream_proxy_step ==
  \E w \in streamtype_values, b \in Behaviours : Env_stream_proxy(w, b)

\* the outputs enumerated for one output array: those of a call that is made
OutIf(called, dtype, arr) ==
  IF called THEN NativeOut(dtype, arr.len) ELSE {ZeroData(arr.len)}
\* whether a failing call wrote its output: enumerated where it can be seen
WroteIf(seen) == IF seen THEN BOOLEAN ELSE {TRUE}

Caller_arrays_step ==
  \/ \E a \in ArrayArgs : Caller_arrays(<<a>>)
  \/ \E a, b \in ArrayArgs : Caller_arrays(<<a, b>>)

Env_axpy_step ==
  /\ IsPending(2)
  /\ \E n \in 0..MaxLen :
       LET x == ArgOf(buf[1])
           y == ArgOf(buf[2])
           called == ~(LenMismatch(x, n) \/ x.none \/ LenMismatch(y, n)
                       \/ NotWriteable(y) \/ y.none)
       IN  \E st \in MinorIf(called) :
             \E wrote \in WroteIf(called /\ st # 0 /\ BindArray(y, "float64") = "borrowed"),
                out \in OutIf(called, "float64", y) :
               Env_axpy(n, x, y, st, wrote, out)

Task_initbasissolve_step ==
  /\ IsPending(1)
  /\ LET basis == ArgOf(buf[1])
     IN  \E sg \in MinorIf(~basis.none) :
           LET called == sg = 0 /\ ~LenMismatch(basis, nat.numcon) /\ ~NotWriteable(basis)
           IN  \E st \in MinorIf(called) :
                 \E n \in FewAnswersFor(sg # 0 \/ st # 0),
                    wrote \in WroteIf(called /\ st # 0 /\ BindArray(basis, "int32") = "borrowed"),
                    out \in OutIf(called, "int32", basis) :
                   Task_initbasissolve(basis, sg, st, n, wrote, out)

Task_solvewithbasis_step ==
  /\ IsPending(2)
  /\ LET sub == ArgOf(buf[1])
         val == ArgOf(buf[2])
     IN  \E sg1 \in MinorIf(~sub.none) :
           LET ok1 == sg1 = 0 /\ ~LenMismatch(sub, nat.numcon) /\ ~NotWriteable(sub)
           IN  \E sg2 \in MinorIf(ok1 /\ ~val.none) :
                 LET called == ok1 /\ sg2 = 0 /\ ~LenMismatch(val, nat.numcon)
                               /\ ~NotWriteable(val)
                 IN  \E st \in MinorIf(called) :
                       \E n \in FewAnswersFor(sg1 # 0 \/ sg2 # 0 \/ st # 0),
                          wrote \in WroteIf(called /\ st # 0
                                            /\ (BindArray(sub, "int32") = "borrowed"
                                                \/ BindArray(val, "float64") = "borrowed")),
                          outs \in OutIf(called, "int32", sub),
                          outv \in OutIf(called, "float64", val) :
                         Task_solvewithbasis(sub, val, sg1, sg2, st, n, wrote, outs, outv)

\* Task.appendcons with the answers that the array wrappers depend on
Task_appendcons_few_step ==
  \E num \in 1..MaxCon, st \in MinorStatus : \E n \in FewAnswersFor(st # 0) :
    Task_appendcons(num, st, n)

Enum_create_step ==
  \E names \in SeqsUpTo(EnumNames, MaxEnumLen),
     values \in {NoValues} \cup {Values(v) : v \in SeqsUpTo(EnumCodes, MaxEnumLen)} :
    Enum_create(names, values)

Enum_lookup_step == \E value \in EnumRequests : Enum_lookup(value)

load_scopt_call_step == \E t \in Threads : load_scopt_call(t)
load_scopt_acquire_step == \E t \in Threads : load_scopt_acquire(t)
load_scopt_check_step == \E t \in Threads : load_scopt_check(t)
load_scopt_open_step == \E t \in Threads, ok \in BOOLEAN : load_scopt_open(t, ok)
load_scopt_link_step == \E t \in Threads, ok \in BOOLEAN : load_scopt_link(t, ok)
load_scopt_release_step == \E t \in Threads : load_scopt_release(t)

\* the arrays callers pass to putvarboundlist
ListsOf(kinds) ==
  {[none |-> FALSE, len |-> l, kind |-> k, data |-> ZeroData(l)] :
     l \in 0..MaxLen, k \in kinds}
NoneArray == [none |-> TRUE, len |-> 0, kind |-> "list", data |-> <<>>]

\* the bound keys callers put in a list: the code of boundkey.lo and an
\* integer that is no code of boundkey
KeyLists ==
  {[none |-> FALSE, len |-> Len(d), kind |-> "list", data |-> d] :
     d \in SeqsUpTo({0, 7}, MaxLen)}

Caller_boundslice_step ==
  /\ task.phase = "ok" /\ task.nativep = "ptr"
  /\ \E bk \in KeyLists, bl \in ListsOf({"nd_f64"}), bu \in ListsOf({"list"}) :
       Caller_arrays(<<bk, bl, bu>>)

Task_putvarboundslice_step ==
  /\ IsPending(3)
  /\ \E last \in 0..MaxLen :
       LET bk == ArgOf(buf[1])
           bl == ArgOf(buf[2])
           bu == ArgOf(buf[3])
           called == bk.len = last /\ bl.len = last /\ bu.len = last
       IN  \E st \in MinorIf(called) : \E n \in FewAnswersFor(st # 0) :
             Task_putvarboundslice(0, last, bk, bl, bu, st, n)

\* how the load/link sequence ends when __load_scopt__ runs it
LoadOutcomes == {"ok", "OSError", "AttributeError"}
LoadIf(used) == IF used THEN LoadOutcomes ELSE {"ok"}

Task_removeSCeval_step ==
  \E lo \in LoadIf(ld.scopt = NoneV /\ task.schandle \notin {NoneV, Unset}) :
    Task_removeSCeval(lo)

Task_putSCeval_step ==
  \E obj \in SCArgKinds, con \in SCArgKinds : \E lo \in LoadIf(ld.scopt = NoneV) :
    LET begun == /\ load_scopt(ld, lo).exc = "none"
                 /\ task.schandle # Unset
                 /\ obj \in {"absent", "ok"} /\ con \in {"absent", "ok"}
                 /\ ~(obj = "absent" /\ con = "absent")
    IN  \E st \in MinorIf(begun) :
          \E n \in {a \in FailAnswers : a.r3 = 0 /\ a.d = "d1"} \cup {NoAnswers} :
            (st = 0 <=> n = NoAnswers) /\ Task_putSCeval(obj, con, lo, st, n)

Accepts_call_step ==
  \E argtlst \in Signatures, args \in SeqsUpTo(ArgValues, MaxArgs) :
    Accepts_call(argtlst, args)

(***************************************************************************)
(* The operations against an engine that returns status 0 from every call. *)
(***************************************************************************)
Env_init_zero_step == \E lf \in BOOLEAN : Env_init(lf, 0, 0, 0, 0)

Task_init_zero_step == \E how \in {"env", "other"} : Task_init(how, 0, 0)

Task_appendvars_zero_step == \E num \in 1..MaxVar : Task_appendvars(num, 0, NoAnswers)

Task_appendcons_zero_step == \E num \in 1..MaxCon : Task_appendcons(num, 0, NoAnswers)

Caller_boundlists_step ==
  /\ task.phase = "ok" /\ task.nativep = "ptr"
  /\ \E sub \in ListsOf({"list", "nd_i32"}) \cup {NoneArray},
        bkx \in ListsOf({"list"}),
        blx \in ListsOf({"nd_f64"}),
        bux \in ListsOf({"list"}) :
       Caller_arrays(<<sub, bkx, blx, bux>>)

Task_putvarboundlist_zero_step ==
  /\ IsPending(4)
  /\ Task_putvarboundlist(ArgOf(buf[1]), ArgOf(buf[2]), ArgOf(buf[3]),
                          ArgOf(buf[4]), 0, NoAnswers)

Task_getnumvar_zero_step == Task_getnumvar(0, NoAnswers)

Task_getnumcon_zero_step == Task_getnumcon(0, NoAnswers)

Task_del_zero_step == \E how \in {"exit", "finalize"} : Task_del(how, 0)

Env_del_zero_step == \E how \in {"exit", "finalize"} : Env_del(how, <<0, 0>>, 0)

(***************************************************************************)
(* Specifications.                                                         *)
(*  Spec    : construction, teardown and status translation of Env, Task   *)
(*  SpecCb  : callback registration and the trampolines                    *)
(*  SpecArr : the array-length checks of the generated wrappers            *)
(*  SpecEnum: making an enumeration and asking it for members              *)
(*  SpecLoad: threads loading the SCopt extension library                  *)
(*  SpecZero: the operations against an engine that returns status 0       *)
(*  SpecAcc : calls through the wrapper built by accepts()                 *)
(*  SpecSlice: putvarboundslice with lists of bound keys                   *)
(*  SpecSC   : the extension handle of a Task (putSCeval, removeSCeval)     *)
(***************************************************************************)
Next ==
  \/ Env_init_step
  \/ Env_del_step
  \/ Env_checkoutlicense_step
  \/ Task_init_step
  \/ Task_del_step
  \/ Task_appendcons_step
  \/ Task_getnumcon_step

Spec == Init /\ [][Next]_vars

NextCb ==
  \/ Env_init_step
  \/ Task_init_step
  \/ Env_set_Stream_step
  \/ Task_set_Stream_step
  \/ Task_set_Progress_step
  \/ Task_set_InfoCallback_step
  \/ Task_progress_proxy_step
  \/ Task_stream_proxy_step
  \/ Env_stream_proxy_step

SpecCb == Init /\ [][NextCb]_vars

NextArr ==
  \/ Env_init_step
  \/ Task_init_step
  \/ Task_appendcons_few_step
  \/ Caller_arrays_step
  \/ Env_axpy_step
  \/ Task_initbasissolve_step
  \/ Task_solvewithbasis_step

SpecArr == Init /\ [][NextArr]_vars

NextEnum ==
  \/ Enum_create_step
  \/ Enum_lookup_step

SpecEnum == Init /\ [][NextEnum]_vars

NextLoad ==
  \/ load_scopt_call_step
  \/ load_scopt_acquire_step
  \/ load_scopt_check_step
  \/ load_scopt_open_step
  \/ load_scopt_link_step
  \/ load_scopt_release_step

SpecLoad == Init /\ [][NextLoad]_vars

NextAcc ==
  \/ Accepts_call_step

SpecAcc == Init /\ [][NextAcc]_vars

NextSlice ==
  \/ Task_init_zero_step
  \/ Caller_boundslice_step
  \/ Task_putvarboundslice_step

SpecSlice == Init /\ [][NextSlice]_vars

NextSC ==
  \/ Task_init_zero_step
  \/ Task_putSCeval_step
  \/ Task_removeSCeval_step
  \/ Task_del_zero_step

SpecSC == Init /\ [][NextSC]_vars

NextZero ==
  \/ Env_init_zero_step
  \/ Task_init_zero_step
  \/ Task_appendvars_zero_step
  \/ Task_appendcons_zero_step
  \/ Caller_boundlists_step
  \/ Task_putvarboundlist_zero_step
  \/ Task_getnumvar_zero_step
  \/ Task_getnumcon_zero_step
  \/ Task_del_zero_step
  \/ Env_del_zero_step

SpecZero == Init /\ [][NextZero]_vars

(***************************************************************************)
(* Properties.                                                             *)
(***************************************************************************)
\* operations of the generated wrappers that make one wrapped native call
WrappedOps == {"Env.checkoutlicense", "Task.appendcons", "Task.getnumcon"}
RegistrationOps == {"Env.set_Stream", "Task.set_Stream", "Task.set_Progress",
                    "Task.set_InfoCallback"}
ArrayOps == {"Env.axpy", "Task.initbasissolve", "Task.solvewithbasis"}

\* C1: a handle that became live and was released twice (explicitly and/or by
\* the finalizer) has had its native destroy call made exactly once.
C1_ReleasedTwiceDestroyedOnce ==
  /\ (env.built /\ nrel.env >= 2) => nat.envDestroys = 1
  /\ (task.built /\ nrel.task >= 2) => nat.taskDestroys = 1

\* C2: whatever combination of construction rollback, explicit release and
\* finalization runs, the native destroy call of a handle is made at most once.
C2_DestroyedAtMostOnce ==
  /\ nat.envDestroys <= 1
  /\ nat.taskDestroys <= 1

\* C3: a handle is live only after its creation call returned 0, and a handle
\* whose creation call did not succeed never has a native destructor called
\* for it, neither by the constructor's error path nor by the finalizer.
C3_NoDestroyWithoutCreation ==
  /\ env.built => nat.env # "none"
  /\ task.built => nat.task # "none"
  /\ nat.env = "none" => nat.envDestroys = 0
  /\ nat.task = "none" => nat.taskDestroys = 0

\* C4: an operation invoked on a released handle (raw pointer = the released
\* sentinel None) fails inside the binding: it raises and makes no native call.
C4_ReleasedHandleFailsFast ==
  /\ (env.built /\ env.nativep = NoneV /\ ret.op = "Env.checkoutlicense")
       => (ret.exc # "none" /\ ncalls = <<>>)
  /\ (task.built /\ task.nativep = NoneV
        /\ ret.op \in {"Task.appendcons", "Task.getnumcon"})
       => (ret.exc # "none" /\ ncalls = <<>>)

\* C5: when the wrapped native call of an Env or Task method returns a non-zero
\* status, the method raises Error carrying that status, with the message that
\* the secondary description call returned.
C5_ErrorCarriesStatusAndDescription ==
  (ret.op \in WrappedOps /\ ncalls # <<>> /\ ncalls[1].st # 0)
    => /\ ret.exc = "Error"
       /\ ret.errno = ncalls[1].st
       /\ \E i \in DOMAIN ncalls :
             ncalls[i].fn = "MSK_XX_getcodedesc" /\ ret.msg = ncalls[i].out

\* C6: a callback registration whose native call returned a non-zero status
\* ends with a raised error (no native status is discarded).
C6_RegistrationStatusSurfaces ==
  (ret.op \in RegistrationOps /\ \E i \in DOMAIN ncalls : ncalls[i].st # 0)
    => ret.exc # "none"

\* C7: a trampoline invocation calls a user callable only if that callable is
\* the value last registered on the slot it is called from; in particular a
\* slot on which None was registered last is never dispatched to.
C7_NoStaleDispatch ==
  \A i \in DOMAIN cb.invoked : cb.regs[cb.invoked[i].slot] = cb.invoked[i].f

\* C7 witness: the progress trampoline was invoked by the engine after None
\* had been registered on both of its slots (the trampoline is installed only
\* by registering a callable), and it called nothing.
C7_Witness ==
  /\ cb.chan = "progress"
  /\ cb.regs.progress = NoneV /\ cb.regs.info = NoneV
  /\ cb.invoked = <<>>

\* C8: when registering None on a channel has returned, the slot is empty and
\* the native engine no longer holds the channel's trampoline (for a stream
\* channel: provided the engine accepted the unlink call).
C8_NoneDetachesNativeLinkage ==
  /\ (ret.op = "Task.set_Progress" /\ ret.exc = "none" /\ lastreg.progress = NoneV
        /\ lastreg.info = NoneV)
       => (task.progress_func = NoneV /\ ~nat.taskcb)
  /\ (ret.op = "Task.set_Stream" /\ ret.exc = "none"
        /\ lastreg.tstream[ret.val] = NoneV /\ ncalls[1].st = 0)
       => (task.stream_func[ret.val] = NoneV /\ ~nat.tasklink[ret.val])
  /\ (ret.op = "Env.set_Stream" /\ ret.exc = "none"
        /\ lastreg.estream[ret.val] = NoneV /\ ncalls[1].st = 0)
       => (env.stream_func[ret.val] = NoneV /\ ~nat.envlink[ret.val])

\* C9: no trampoline invocation ends by raising into the native frame, and a
\* progress trampoline in which a user callable raised returns non-zero.
C9_TrampolineNeverRaises ==
  /\ ~cb.raised
  /\ (cb.chan = "progress" /\ cb.uraise) => cb.r # 0

\* C9 witness: a user callable raised inside the progress trampoline, which
\* returned -1.
C9_Witness == cb.chan = "progress" /\ cb.uraise /\ ~cb.raised /\ cb.r = -1

WrappedFns == {"MSK_XX_axpy", "MSK_XX_initbasissolve", "MSK_XX_solvewithbasis"}
WrappedCallMade == \E i \in DOMAIN ncalls : ncalls[i].fn \in WrappedFns
\* a destination the write-back cannot store into
Unwritable(rec) == rec.output /\ ~rec.none /\ rec.kind \in {"nd_f64_ro", "tuple"}

\* C11: a wrapper given an output array that cannot be written (a read-only
\* numpy array, a tuple) raises and does not make its native call.
C11_UnwritableOutputRejected ==
  (ret.op \in ArrayOps /\ \E i \in DOMAIN buf : Unwritable(buf[i]))
    => (ret.exc # "none" /\ ~WrappedCallMade)

\* the wrapped native call of the operation that just ran returned non-zero
WrappedCallFailed ==
  \E i \in DOMAIN ncalls : ncalls[i].fn \in WrappedFns /\ ncalls[i].st # 0

\* C12: when the wrapped native call returned a non-zero status, every caller
\* sequence that was bound through a temporary copy holds what it held before
\* the wrapper was called.
C12_NoWriteBackOnFailure ==
  (ret.op \in ArrayOps /\ WrappedCallFailed)
    => \A j \in DOMAIN buf : buf[j].bound = "copy" => buf[j].after = buf[j].before

\* C12 witness: solvewithbasis was called with two non-empty lists, its native
\* call failed, Error was raised and both lists are as they were.
C12_Witness ==
  /\ ret.op = "Task.solvewithbasis" /\ ret.exc = "Error" /\ WrappedCallFailed
  /\ Len(buf) = 2
  /\ \A j \in 1..2 : /\ buf[j].kind = "list" /\ buf[j].bound = "copy"
                     /\ Len(buf[j].before) > 0 /\ buf[j].after = buf[j].before

\* the wrapped native call of the operation that just ran returned 0
WrappedCallSucceeded ==
  \E i \in DOMAIN ncalls : ncalls[i].fn \in WrappedFns /\ ncalls[i].st = 0

\* C13: an array that reached the binding step is borrowed exactly when it is
\* a contiguous numpy array of the required element type, and is copied
\* otherwise; after a successful native call an output array that was copied
\* holds the values the engine wrote, in their order and number.
C13_BorrowedOrCopiedBack ==
  ret.op \in ArrayOps =>
    \A j \in DOMAIN buf :
      (~buf[j].none /\ buf[j].bound \in {"borrowed", "copy"}) =>
        /\ buf[j].bound = "borrowed"
             <=> (IsNdarray(buf[j].kind) /\ Contiguous(buf[j].kind)
                    /\ Dtype(buf[j].kind) = buf[j].dtype)
        /\ (buf[j].bound = "copy" /\ buf[j].output /\ WrappedCallSucceeded)
             => buf[j].after = buf[j].native

\* C14: for every enumeration made by Enum(name, names, values), looking a
\* declared member up by its name and then by the code found gives the same
\* member (same name and same code), and so does looking it up by its code and
\* then by the name found.
C14_EnumRoundTrip ==
  en.phase = "built" =>
    \A i \in DOMAIN en.members :
      LET byname == EnumBase_new(en, StrReq(en.members[i].name))
          byval == EnumBase_new(en, IntReq(en.members[i].code))
      IN  /\ byname.exc = "none" /\ byval.exc = "none"
          /\ EnumBase_new(en, IntReq(byname.item.code)) = byname
          /\ EnumBase_new(en, StrReq(byval.item.name)) = byval

\* a name made of a letter followed by letters, digits and underscores only
IsIdentifier(n) ==
  /\ Len(n) >= 1
  /\ n[1] \in Letters
  /\ \A i \in 2..Len(n) : n[i] \in Letters \cup Digits \cup {"_"}
Repeats(seq) == \E i, j \in DOMAIN seq : i < j /\ seq[i] = seq[j]
BadEnumArgs ==
  \/ \E i \in DOMAIN en.names : ~IsIdentifier(en.names[i])
  \/ ~en.values.none /\ Len(en.values.seq) # Len(en.names)
  \/ Repeats(en.names)
  \/ ~en.values.none /\ Repeats(en.values.seq)

\* C15: Enum(name, names, values) fails and defines no members when a name is
\* not an identifier, when names and values differ in length, when a name is
\* repeated or when a value is repeated.
C15_BadEnumFails ==
  (en.phase # "none" /\ BadEnumArgs) =>
    (en.phase = "failed" /\ en.members = <<>>)

\* the strings that name member m of the enumeration: its name, and its name
\* qualified by the name of the enumeration, as str(m) writes it
NamesOf(m) == {m.name, en.name \o <<".">> \o m.name}
Undeclared(req) ==
  \/ req.t = "int" /\ \A i \in DOMAIN en.members : en.members[i].code # req.code
  \/ req.t = "str" /\ \A i \in DOMAIN en.members : req.name \notin NamesOf(en.members[i])

\* C16: asking an enumeration for a member by a name or by an integer code it
\* does not declare raises an error; it never returns a default or some other
\* member.
C16_UndeclaredLookupFails ==
  (en.phase = "built" /\ ret.op = "EnumBase.__new__" /\ Undeclared(en.req)) =>
    (en.got.exc # "none" /\ ret.exc # "none" /\ en.got.item = NoMember)

\* C17: a parameter declared with _accept_anyenum(feature) rejects every
\* argument that is not a member of feature -- a raw integer equal to a
\* member's code, a member of another enumeration with the same code -- with
\* TypeError, and the wrapped native call is not made.
C17_ForeignEnumArgumentRejected ==
  (ret.op = "Env.checkoutlicense" /\ ret.arg.enum # "feature") =>
    (ret.exc = "TypeError" /\ ncalls = <<>>)

C17_Witness ==
  /\ ret.op = "Env.checkoutlicense"
  /\ ret.arg = [enum |-> "streamtype", v |-> 1]
  /\ ret.exc = "TypeError"

InSequence(t) == ld.pc[t] \in {"check", "load", "link", "release"}
ReturnedNormally(t) == ld.pc[t] = "returned" /\ ld.exc[t] = "none"

\* C18 as stated: when several threads call __load_scopt__ on first use, the
\* load/link sequence runs exactly once and every caller returns only after
\* it has completed.
C18_LoadRunsExactlyOnce ==
  /\ ld.runs <= 1
  /\ \A t \in Threads : ReturnedNormally(t) => (ld.runs = 1 /\ ld.linked)

ZeroOps == {"Env.__init__", "Task.__init__", "Task.appendvars", "Task.appendcons",
            "Task.getnumvar", "Task.getnumcon", "Task.__del__", "Env.__del__"}
EqualLists ==
  /\ Len(buf) = 4
  /\ \A i \in 1..4 : ~buf[i].none /\ Len(buf[i].before) = Len(buf[1].before)

\* C19: against an engine that returns status 0 from every call, creating an
\* Env and a Task, appending variables and constraints, putvarboundlist with
\* four lists of equal length, reading the counts back and releasing Task and
\* Env all end without error; putvarboundlist makes its native call with the
\* common length, the counts read back are the numbers appended, and each
\* native destructor is called exactly once for a released handle.
C19_EndToEndWithZeroStatus ==
  /\ ret.op \in ZeroOps => ret.exc = "none"
  /\ (ret.op = "Task.putvarboundlist" /\ EqualLists) =>
       /\ ret.exc = "none"
       /\ ncalls = <<NCall("MSK_XX_putvarboundlist", "ptr", 0)>>
       /\ ret.val = Len(buf[1].before)
  /\ ret.op = "Task.getnumvar" => ret.val = nat.numvar
  /\ ret.op = "Task.getnumcon" => ret.val = nat.numcon
  /\ (env.built /\ nrel.env >= 1) => (nat.envDestroys = 1 /\ env.nativep = NoneV)
  /\ (task.built /\ nrel.task >= 1) => (nat.taskDestroys = 1 /\ task.nativep = NoneV)
  /\ nat.envDestroys <= 1 /\ nat.taskDestroys <= 1

C19_Witness ==
  /\ env.built /\ task.built
  /\ nat.numvar = 2 /\ nat.numcon = 1
  /\ nrel.task = 1 /\ nrel.env = 1
  /\ nat.taskDestroys = 1 /\ nat.envDestroys = 1
  /\ ret.op = "Env.__del__" /\ ret.exc = "none"

\* C20: the first release or finalization of a live Env or Task always ends
\* with the handle released (sentinel set) and its native destroy call made,
\* whatever statuses the native calls made during teardown return.
C20_TeardownAlwaysReleases ==
  /\ (ret.op = "Env.__del__" /\ env.built /\ nrel.env = 1) =>
       (env.nativep = NoneV /\ nat.envDestroys = 1)
  /\ (ret.op = "Task.__del__" /\ task.built /\ nrel.task = 1) =>
       (task.nativep = NoneV /\ nat.taskDestroys = 1)

\* C21: the teardown (explicit release or finalizer) of a Task constructed
\* around a pre-existing native pointer does not call the native task
\* destructor on the wrapped pointer.
C21_ForeignTaskNotDestroyed ==
  (ret.op = "Task.__del__" /\ task.built /\ task.foreign) =>
    \A i \in DOMAIN ncalls : ncalls[i].fn # "MSK_XX_deletetask"

\* C22: when the engine invokes the progress trampoline of a Task on which no
\* progress and no info callback is registered, the trampoline calls nothing
\* and returns 0, for every phase code the engine passes (the declared
\* callbackcode values).
C22_IdleTrampolineContinues ==
  (/\ cb.chan = "progress"
   /\ task.progress_func = NoneV /\ task.infocallback_func = NoneV
   /\ cb.caller \in callbackcode_values) =>
    (cb.invoked = <<>> /\ cb.r = 0 /\ ~cb.raised)

C22_Witness ==
  /\ cb.chan = "progress"
  /\ task.progress_func = NoneV /\ task.infocallback_func = NoneV
  /\ cb.caller \in callbackcode_values
  /\ cb.r = 0

\* C28: when both an info callback and a progress callback are registered and
\* both return, one invocation of the progress trampoline calls the info
\* callback first and then the progress callback, and returns the progress
\* callback's value (0 if it is not an integer), whatever the info callback
\* returned.
C28_ProgressValueWins ==
  (/\ cb.chan = "progress"
   /\ task.progress_func \in Funcs /\ task.infocallback_func \in Funcs
   /\ cb.caller \in callbackcode_values
   /\ ~cb.uraise) =>
    /\ Len(cb.invoked) = 2
    /\ cb.invoked[1].slot = "info" /\ cb.invoked[2].slot = "progress"
    /\ cb.r = IF cb.rets[2].k = "int" THEN cb.rets[2].v ELSE 0

C28_Witness ==
  /\ cb.chan = "progress"
  /\ task.progress_func \in Funcs /\ task.infocallback_func \in Funcs
  /\ Len(cb.rets) = 2
  /\ cb.rets[1] = [k |-> "int", v |-> 1]
  /\ cb.rets[2] = [k |-> "int", v |-> 0]
  /\ cb.r = 0

SecondaryFailed ==
  \E i \in 2..Len(ncalls) :
    ncalls[i].fn \in {"MSK_XX_getlasterror64", "MSK_XX_getcodedesc"} /\ ncalls[i].st # 0

\* C23: when a native call of a Task wrapper fails with a declared status s
\* and a secondary call that fetches the error description fails too, the
\* wrapper still raises Error carrying s; when the description could not be
\* fetched its message is empty.
C23_SecondaryFailureKeepsStatus ==
  (/\ ret.op \in {"Task.appendcons", "Task.getnumcon"}
   /\ ncalls # <<>>
   /\ ncalls[1].st # 0 /\ ncalls[1].st \in rescode_values
   /\ SecondaryFailed) =>
    /\ ret.exc = "Error"
    /\ ret.errno = ncalls[1].st
    /\ (\E i \in DOMAIN ncalls : ncalls[i].fn = "MSK_XX_getcodedesc" /\ ncalls[i].st # 0)
         => ret.msg = ""

ArityOk == Len(ac.args) = Len(ac.argtlst)
EveryContractAccepted ==
  /\ Len(ac.applied) = Len(ac.argtlst)
  /\ \A i \in DOMAIN ac.applied : ac.applied[i].exc = "none"

\* C24: the wrapper built by accepts() invokes the wrapped function only if
\* the number of arguments equals the number of contracts and every contract,
\* applied to the argument at its position, accepted it, and then passes the
\* converted arguments in order; on an arity mismatch or a contract failure
\* the wrapped function is not invoked.
C24_ForwardsOnlyAcceptedCalls ==
  ac.made =>
    /\ ac.called <=> (ArityOk /\ EveryContractAccepted)
    /\ ac.called =>
         /\ ac.exc = "none"
         /\ Len(ac.passed) = Len(ac.args)
         /\ \A i \in DOMAIN ac.passed :
              ac.passed[i] = ApplyContract(ac.argtlst[i], ac.args[i]).val
    /\ ~ac.called => ac.exc # "none"

C24_Witness ==
  /\ ac.made /\ ~ac.called
  /\ Len(ac.args) = 3 /\ Len(ac.argtlst) = 2
  /\ ac.exc = "TypeError"

\* C25: on a contract failure the wrapper raises one classified error
\* (TypeError made by the wrapper) that names the offending parameter; the
\* exception raised by the conversion itself never reaches the caller.
C25_ContractFailureIsClassified ==
  (ac.made /\ ArityOk /\ ~ac.called) =>
    /\ ac.exc = "TypeError"
    /\ ac.origin = "accepts"
    /\ ac.msg.param = Len(ac.applied)

\* C26 (input side): an array given for an enum-valued array parameter that
\* holds an integer that is no code of the declared enumeration is rejected
\* by the binding: the call raises and no native call is made.
C26_ForeignKeyRejected ==
  (/\ ret.op = "Task.putvarboundslice"
   /\ \E i \in DOMAIN buf[1].before : buf[1].before[i] \notin boundkey_values) =>
    (ret.exc # "none" /\ ncalls = <<>>)

\* C30: __load_scopt__ releases its lock on every path, and once a call has
\* returned or raised and no thread is inside the sequence, a non-None
\* __scopt__ has all its entry-point signatures configured (a failure
\* part-way leaves it None).
C30_LoadedMeansLinked ==
  /\ \A t \in Threads : ld.pc[t] = "returned" => ld.guard # t
  /\ ((\E t \in Threads : ld.pc[t] = "returned")
      /\ (\A t \in Threads : ~InSequence(t))
      /\ ld.scopt # NoneV)
       => ld.linked

\* the calls hold MSK_scdetach, then MSK_scend, then fn
TornDownBefore(calls, fn) ==
  \E j, k, i \in DOMAIN calls :
    /\ j < k /\ k < i
    /\ calls[j].fn = "MSK_scdetach"
    /\ calls[k].fn = "MSK_scend"
    /\ calls[i].fn = fn

\* C27: the extension handle of a Task is detached and ended before the
\* Task's own MSK_XX_deletetask in teardown; putSCeval on a Task that holds a
\* handle detaches and ends it before the MSK_scbegin that makes the new one;
\* at most one extension handle per Task exists at any time.
C27_PreviousHandleTornDownFirst ==
  /\ [](nat.sclive <= 1)
  /\ [][(task.schandle = "sch" /\ ret'.op = "Task.__del__")
          => TornDownBefore(ncalls', "MSK_XX_deletetask")]_vars
  /\ [][(/\ task.schandle = "sch"
         /\ ret'.op = "Task.putSCeval"
         /\ \E i \in DOMAIN ncalls' : ncalls'[i].fn = "MSK_scbegin")
          => TornDownBefore(ncalls', "MSK_scbegin")]_vars

\* C29: while the Task is live its extension-handle slot is non-empty only
\* if MSK_scbegin succeeded for the stored handle and the handle has not
\* been ended since; after a putSCeval whose MSK_scbegin failed the slot is
\* empty; MSK_scend is never called on a handle that was not created.
C29_SlotHoldsCreatedHandle ==
  /\ (task.phase = "ok" /\ task.schandle \notin {NoneV, Unset})
       => (task.schandle = "sch" /\ nat.sclive = 1)
  /\ (/\ ret.op = "Task.putSCeval"
      /\ \E i \in DOMAIN ncalls : ncalls[i].fn = "MSK_scbegin" /\ ncalls[i].st # 0)
       => task.schandle = NoneV
  /\ \A i \in DOMAIN ncalls : ncalls[i].fn = "MSK_scend" => ncalls[i].sch = "sch"

====
